---- MODULE Spec2Model ----
(***************************************************************************)
(* Token-Craft scoring core: streak tracker, combo evaluator, achievement  *)
(* ledger, migration engine, profile persistence and the score aggregator. *)
(*                                                                         *)
(* Conventions                                                             *)
(*   - Python None is <<>>; a value that may be None is held in a tuple:   *)
(*     a date is <<"d", i>>, an optional object x is <<x>>.                *)
(*   - a dict is a function from its keys; a dict that is shared between   *)
(*     two objects lives in the heap and is named by <<"ref", n>>.         *)
(*   - scores are kept in tenths of a point (1 point is 10).               *)
(*   - call is the operation invoked by the last step and its arguments,   *)
(*     <<name, arg, ...>>; every action sets it.                           *)
(*   - multipliers are kept in hundredths (1.05 is 105).                   *)
(*   - Python floats are computed as exact rationals, and round() takes    *)
(*     an exact tie to the even neighbour.                                 *)
(***************************************************************************)
EXTENDS Integers, Sequences, FiniteSets, TLC

VARIABLES
    call,                   \* <<operation name, arguments...>> of the last step
    current_streak,         \* StreakSystem.current_streak
    best_streak,            \* StreakSystem.best_streak
    streak_ret,             \* last value returned by update_streak / get_streak_bonus
    unlocked_achievements,  \* AchievementEngine.unlocked_achievements (a list of ids)
    ach_ret,                \* last value returned by an AchievementEngine method
    reported,               \* history: how often each id was returned as newly unlocked
    disk,                   \* the profile document in user_profile.json, None if no file
    data,                   \* UserProfile.data, None before a UserProfile is constructed
    profile_pc,             \* how far the load / update / save cycle has come
    run_ret,                \* what TokenCraftHandler.run returned last
    processes,              \* per concurrent process: its position and its UserProfile.data
    heap,                   \* the score dicts that profiles share, by reference number
    old_profile,            \* the profile given to MigrationEngine
    new_profile,            \* the profile MigrationEngine returned last, None before
    mig_ret,                \* what need_migration / validate_migration returned last
    usage,                  \* what the scorer counts in history_data, stats_data and on disk
    user_rank,              \* TokenCraftScorer.user_rank
    previous_snapshot,      \* the argument of calculate_total_score, None or <<dict>>
    last_updated,           \* days since user_profile["last_updated"], None if absent
    recent_session_scores,  \* user_profile.get("recent_session_scores", []), in tenths
    score_ret,              \* what an evaluator or calculate_total_score returned last
    totals                  \* the locals of the last calculate_total_score run

streak_vars == <<current_streak, best_streak, streak_ret>>
ach_vars == <<unlocked_achievements, ach_ret, reported>>
profile_vars == <<disk, data, profile_pc, run_ret, processes>>
mig_vars == <<heap, old_profile, new_profile, mig_ret>>
score_vars ==
    <<usage, user_rank, previous_snapshot, last_updated, recent_session_scores,
      score_ret, totals>>

vars == <<call, streak_vars, ach_vars, profile_vars, mig_vars, score_vars>>

None == <<>>

Min(a, b) == IF a <= b THEN a ELSE b
Max(a, b) == IF a >= b THEN a ELSE b

SetMin(S) == CHOOSE x \in S : \A y \in S : x <= y

\* the element of a one-element set; Only({e(v) : v \in {x}}) is e with v bound
\* to the value of x
Only(S) == CHOOSE x \in S : TRUE

(***************************************************************************)
(* Bounds of the model                                                     *)
(***************************************************************************)
\* session dates fed to update_streak are "d1" .. "d<MaxDate>"
MaxDate == 2

DateName(i) == <<"d", i>>
SessionDates == {DateName(i) : i \in 1..MaxDate}
SessionScores == {100, 250}

(***************************************************************************)
(* StreakSystem (streak_system.py)                                         *)
(***************************************************************************)
STREAK_PROGRESSION ==
    << [sessions |-> 1, multiplier |-> 100, bonus_points |-> 0],
       [sessions |-> 2, multiplier |-> 105, bonus_points |-> 10],
       [sessions |-> 3, multiplier |-> 110, bonus_points |-> 20],
       [sessions |-> 4, multiplier |-> 115, bonus_points |-> 30],
       [sessions |-> 5, multiplier |-> 120, bonus_points |-> 40],
       [sessions |-> 6, multiplier |-> 125, bonus_points |-> 50] >>

MAX_STREAK == 6

new_streak ==
    [length |-> 0, start_date |-> None, last_session_date |-> None,
     last_session_score |-> 0, bonus_points_earned |-> 0]

\* the entry get_streak_bonus picks: the last one by default, else the first
\* whose "sessions" equals the length
StreakProgressionEntry(streak_length) ==
    LET matches == {i \in 1..Len(STREAK_PROGRESSION) :
                        STREAK_PROGRESSION[i].sessions = streak_length}
    IN  IF matches = {}
        THEN STREAK_PROGRESSION[Len(STREAK_PROGRESSION)]
        ELSE STREAK_PROGRESSION[SetMin(matches)]

get_streak_bonus(cur) ==
    LET progression == StreakProgressionEntry(cur.length)
    IN  [streak_length |-> cur.length,
         multiplier |-> progression.multiplier,
         bonus_points |-> progression.bonus_points,
         is_active |-> cur.length > 0,
         start_date |-> cur.start_date,
         last_session_date |-> cur.last_session_date]

\* nothing has been returned yet
NoStreakReturn ==
    [streak_length |-> 0, multiplier |-> 0, bonus_points |-> 0, is_active |-> FALSE,
     start_date |-> None, last_session_date |-> None]

check_improvement(current_score, previous_score) == current_score > previous_score

ExtendStreak_NoCap(cur) == [cur EXCEPT !.length = @ + 1]

\* length += 1, capped at 6
ExtendStreak(cur) ==
    LET c1 == [cur EXCEPT !.length = @ + 1]
    IN  IF c1.length > MAX_STREAK THEN [c1 EXCEPT !.length = MAX_STREAK] ELSE c1

UpdateBest_Always(cur, best) == cur

\* best = dict(current) when the current streak is longer
UpdateBest(cur, best) == IF cur.length > best.length THEN cur ELSE best

StampStreak(cur, current_score, session_date) ==
    LET c1 == IF cur.start_date = None
              THEN [cur EXCEPT !.start_date = session_date] ELSE cur
    IN  [c1 EXCEPT !.last_session_date = session_date,
                   !.last_session_score = current_score]

\* streak broken: reset current, keep best
BrokenStreak(cur) == new_streak

update_streak(improved, current_score, session_date) ==
    /\ IF improved
       THEN LET extended == ExtendStreak(current_streak)
            IN  /\ best_streak' = UpdateBest(extended, best_streak)
                /\ current_streak' = StampStreak(extended, current_score, session_date)
       ELSE /\ current_streak' = BrokenStreak(current_streak)
            /\ best_streak' = best_streak
    /\ streak_ret' = get_streak_bonus(current_streak')
    /\ call' = <<"update_streak", improved, current_score, session_date>>

UpdateStreak ==
    /\ \E improved \in BOOLEAN, current_score \in SessionScores, d \in SessionDates :
           update_streak(improved, current_score, d)
    /\ UNCHANGED <<ach_vars, profile_vars, mig_vars, score_vars>>

GetStreakBonus ==
    /\ streak_ret' = get_streak_bonus(current_streak)
    /\ call' = <<"get_streak_bonus">>
    /\ UNCHANGED <<current_streak, best_streak, ach_vars, profile_vars, mig_vars, score_vars>>


(***************************************************************************)
(* AchievementEngine (achievement_engine.py)                               *)
(* An achievement id is the tuple of the parts str.split("_") gives, so    *)
(* "rank_cadet" is <<"rank", "cadet">>.                                    *)
(***************************************************************************)
Ach(id, category, points) == [achievement_id |-> id, category |-> category, points |-> points]

ACHIEVEMENT_OBJECTS ==
    << Ach(<<"rank", "cadet">>, "Progression", 20),
       Ach(<<"rank", "navigator">>, "Progression", 50),
       Ach(<<"rank", "captain">>, "Progression", 100),
       Ach(<<"rank", "admiral">>, "Progression", 150),
       Ach(<<"rank", "legend">>, "Progression", 200),
       Ach(<<"excellence", "efficiency">>, "Excellence", 75),
       Ach(<<"excellence", "adoption">>, "Excellence", 75),
       Ach(<<"excellence", "cache">>, "Excellence", 75),
       Ach(<<"excellence", "waste">>, "Excellence", 75),
       Ach(<<"excellence", "cost">>, "Excellence", 75),
       Ach(<<"streak", "5">>, "Streaks", 100),
       Ach(<<"streak", "10">>, "Streaks", 150),
       Ach(<<"streak", "20">>, "Streaks", 200),
       Ach(<<"combo", "focused">>, "Combos", 50),
       Ach(<<"combo", "wellrounded">>, "Combos", 100),
       Ach(<<"combo", "mastery">>, "Combos", 200),
       Ach(<<"explore", "10">>, "Exploration", 25),
       Ach(<<"explore", "50">>, "Exploration", 75),
       Ach(<<"explore", "100">>, "Exploration", 150),
       Ach(<<"explore", "250">>, "Exploration", 200),
       Ach(<<"special", "zero", "waste">>, "Special", 60),
       Ach(<<"special", "consistency">>, "Special", 150),
       Ach(<<"special", "speedrun">>, "Special", 100),
       Ach(<<"special", "comeback">>, "Special", 80),
       Ach(<<"special", "peak">>, "Special", 120),
       Ach(<<"sustainability", "paced">>, "Sustainability", 100),
       Ach(<<"sustainability", "balanced">>, "Sustainability", 75),
       Ach(<<"sustainability", "rest">>, "Sustainability", 80),
       Ach(<<"sustainability", "longterm">>, "Sustainability", 150),
       Ach(<<"sustainability", "wisdom">>, "Sustainability", 125),
       Ach(<<"special", "concise">>, "Special", 75),
       Ach(<<"special", "flawless">>, "Special", 100),
       Ach(<<"special", "model", "maestro">>, "Special", 100),
       Ach(<<"special", "batch", "master">>, "Special", 75) >>

CatalogIds == {ACHIEVEMENT_OBJECTS[i].achievement_id : i \in 1..Len(ACHIEVEMENT_OBJECTS)}

InList(x, list) == \E i \in 1..Len(list) : list[i] = x

\* <<the first catalog entry with this id>>, <<>> when there is none
FindExact(achievement_id) ==
    LET hits == {i \in 1..Len(ACHIEVEMENT_OBJECTS) :
                    ACHIEVEMENT_OBJECTS[i].achievement_id = achievement_id}
    IN  IF hits = {} THEN None ELSE <<ACHIEVEMENT_OBJECTS[SetMin(hits)]>>

\* "_ranked" in achievement_id
HasRankedPart(achievement_id) ==
    \E i \in 2..Len(achievement_id) : achievement_id[i] = "ranked"

get_achievement_by_id_FirstByDefault(achievement_id) ==
    IF FindExact(achievement_id) # <<>>
    THEN FindExact(achievement_id)
    ELSE <<ACHIEVEMENT_OBJECTS[1]>>

get_achievement_by_id(achievement_id) ==
    IF FindExact(achievement_id) # <<>>
    THEN FindExact(achievement_id)
    ELSE IF HasRankedPart(achievement_id)
         THEN FindExact(<<"rank", achievement_id[1]>>)
         ELSE <<>>

unlock_achievement_NoMembershipTest(unlocked, achievement_id) ==
    LET achievement == get_achievement_by_id(achievement_id)
    IN  IF achievement = <<>>
        THEN [unlocked |-> unlocked, result |-> [status |-> "invalid_achievement"]]
        ELSE [unlocked |-> Append(unlocked, achievement_id),
              result |-> [status |-> "unlocked", achievement_id |-> achievement_id,
                          category |-> achievement[1].category,
                          points |-> achievement[1].points]]

unlock_achievement_Overwrite(unlocked, achievement_id) ==
    LET achievement == get_achievement_by_id(achievement_id)
    IN  IF InList(achievement_id, unlocked)
        THEN [unlocked |-> unlocked,
              result |-> [status |-> "already_unlocked", achievement_id |-> achievement_id]]
        ELSE IF achievement = <<>>
        THEN [unlocked |-> unlocked, result |-> [status |-> "invalid_achievement"]]
        ELSE [unlocked |-> <<achievement_id>>,
              result |-> [status |-> "unlocked", achievement_id |-> achievement_id,
                          category |-> achievement[1].category,
                          points |-> achievement[1].points]]

\* the list after the call and the dict the call returns
unlock_achievement(unlocked, achievement_id) ==
    LET achievement == get_achievement_by_id(achievement_id)
    IN  IF InList(achievement_id, unlocked)
        THEN [unlocked |-> unlocked,
              result |-> [status |-> "already_unlocked", achievement_id |-> achievement_id]]
        ELSE IF achievement = <<>>
        THEN [unlocked |-> unlocked, result |-> [status |-> "invalid_achievement"]]
        ELSE [unlocked |-> Append(unlocked, achievement_id),
              result |-> [status |-> "unlocked", achievement_id |-> achievement_id,
                          category |-> achievement[1].category,
                          points |-> achievement[1].points]]

\* one "if <condition> and <id> not in self.unlocked_achievements" block of a
\* check_* method; st is [unlocked, newly]
CheckBlock(st, condition, achievement_id) ==
    Only({ IF condition /\ ~InList(achievement_id, s.unlocked)
           THEN Only({ [unlocked |-> r.unlocked,
                        newly |-> IF r.result.status = "unlocked"
                                  THEN Append(s.newly, r.result) ELSE s.newly]
                       : r \in {unlock_achievement(s.unlocked, achievement_id)} })
           ELSE s
           : s \in {st} })

check_progression_achievements(unlocked, rank) ==
    LET s0 == [unlocked |-> unlocked, newly |-> <<>>]
        s1 == CheckBlock(s0, rank >= 1, <<"rank", "cadet">>)
        s2 == CheckBlock(s1, rank >= 2, <<"rank", "navigator">>)
        s3 == CheckBlock(s2, rank >= 5, <<"rank", "captain">>)
        s4 == CheckBlock(s3, rank >= 7, <<"rank", "admiral">>)
        s5 == CheckBlock(s4, rank >= 10, <<"rank", "legend">>)
    IN  s5

excellence_map ==
    << <<"token_efficiency", <<"excellence", "efficiency">> >>,
       <<"optimization_adoption", <<"excellence", "adoption">> >>,
       <<"cache_effectiveness", <<"excellence", "cache">> >>,
       <<"waste_awareness", <<"excellence", "waste">> >>,
       <<"cost_efficiency", <<"excellence", "cost">> >> >>

\* max_score > 0 and score / max_score >= 0.80
MeetsExcellence(entry) ==
    entry.max_score > 0 /\ 5 * entry.score >= 4 * entry.max_score

RECURSIVE ExcellenceLoop(_, _, _)
ExcellenceLoop(st, category_scores, i) ==
    IF i > Len(excellence_map) THEN st
    ELSE LET category == excellence_map[i][1]
             achievement_id == excellence_map[i][2]
             next == IF category \in DOMAIN category_scores
                     THEN CheckBlock(st, MeetsExcellence(category_scores[category]),
                                     achievement_id)
                     ELSE st
         IN  ExcellenceLoop(next, category_scores, i + 1)

check_excellence_achievements(unlocked, category_scores) ==
    ExcellenceLoop([unlocked |-> unlocked, newly |-> <<>>], category_scores, 1)

InitStreak ==
    /\ current_streak = new_streak
    /\ best_streak = new_streak
    /\ streak_ret = NoStreakReturn

\* category_scores arguments given to check_excellence_achievements (tenths of a point)
Cat(score, max_score) == [score |-> score, max_score |-> max_score]

ExcellenceInputs ==
    { \* the categories of a run without data: only cost efficiency at 80%
      [c \in {"token_efficiency", "optimization_adoption", "cache_effectiveness",
              "waste_awareness", "cost_efficiency"} |->
          CASE c = "token_efficiency" -> Cat(1250, 2500)
            [] c = "optimization_adoption" -> Cat(1125, 4000)
            [] c = "cache_effectiveness" -> Cat(0, 750)
            [] c = "waste_awareness" -> Cat(0, 750)
            [] c = "cost_efficiency" -> Cat(600, 750)],
      \* efficiency and waste excellent, cache just below the threshold, a
      \* category with max_score 0
      [c \in {"token_efficiency", "cache_effectiveness", "waste_awareness",
              "cost_efficiency"} |->
          CASE c = "token_efficiency" -> Cat(2500, 2500)
            [] c = "cache_effectiveness" -> Cat(599, 750)
            [] c = "waste_awareness" -> Cat(600, 750)
            [] c = "cost_efficiency" -> Cat(0, 0)] }

RankInputs == {0, 2, 5, 10}

\* ids given to unlock_achievement: catalog ids, a legacy "<name>_ranked" id and
\* ids the catalog does not hold
UnlockInputs ==
    { <<"rank", "cadet">>, <<"cadet", "ranked">>, <<"bogus", "ranked">>,
      <<"no", "such", "achievement">> }

\* unlock lists a profile can carry into AchievementEngine(profile)
InitialLedgers == { <<>>, << <<"rank", "cadet">>, <<"excellence", "cost">> >> }

Reported(id) == IF id \in DOMAIN reported THEN reported[id] ELSE 0

RECURSIVE Report(_, _)
Report(rep, newly) ==
    IF newly = <<>> THEN rep
    ELSE Only({ LET id == Head(newly).achievement_id
                    n == IF id \in DOMAIN r THEN r[id] ELSE 0
                IN  Report((id :> n + 1) @@ r, Tail(newly))
                : r \in {rep} })

UnlockAchievement ==
    /\ \E achievement_id \in UnlockInputs :
          LET r == unlock_achievement(unlocked_achievements, achievement_id)
          IN  /\ unlocked_achievements' = r.unlocked
              /\ ach_ret' = r.result
              /\ reported' = IF r.result.status = "unlocked"
                             THEN Report(reported, <<r.result>>) ELSE reported
              /\ call' = <<"unlock_achievement", achievement_id>>
    /\ UNCHANGED <<streak_vars, profile_vars, mig_vars, score_vars>>

CheckProgressionAchievements ==
    /\ \E rank \in RankInputs :
          LET r == check_progression_achievements(unlocked_achievements, rank)
          IN  /\ unlocked_achievements' = r.unlocked
              /\ ach_ret' = r.newly
              /\ reported' = Report(reported, r.newly)
              /\ call' = <<"check_progression_achievements", rank>>
    /\ UNCHANGED <<streak_vars, profile_vars, mig_vars, score_vars>>

CheckExcellenceAchievements ==
    /\ \E category_scores \in ExcellenceInputs :
          LET r == check_excellence_achievements(unlocked_achievements, category_scores)
          IN  /\ unlocked_achievements' = r.unlocked
              /\ ach_ret' = r.newly
              /\ reported' = Report(reported, r.newly)
              /\ call' = <<"check_excellence_achievements", category_scores>>
    /\ UNCHANGED <<streak_vars, profile_vars, mig_vars, score_vars>>

(***************************************************************************)
(* dicts                                                                   *)
(***************************************************************************)
Some(x) == <<x>>

Get(d, k, default) == IF k \in DOMAIN d THEN d[k] ELSE default

Put(d, k, v) == [x \in DOMAIN d \cup {k} |-> IF x = k THEN v ELSE d[x]]

Del(d, k) == [x \in DOMAIN d \ {k} |-> d[x]]

(***************************************************************************)
(* UserProfile (user_profile.py) and TokenCraftHandler.run                 *)
(* (skill_handler.py).  user_email, created_at and preferences are written *)
(* once and never read by the modelled methods; they are left out of the   *)
(* documents.                                                              *)
(***************************************************************************)
SCHEMA_VERSION_LEGACY == "2.0"
SCHEMA_VERSION_CURRENT == "3.0"

V3Categories ==
    {"token_efficiency", "optimization_adoption", "improvement_trend", "best_practices",
     "cache_effectiveness", "tool_efficiency", "session_focus", "cost_efficiency",
     "learning_growth", "waste_awareness"}

REMOVED_CATEGORIES == <<"self_sufficiency">>

NewSeasonalInfo(now) ==
    [current_season_score |-> 0, lifetime_score |-> 0,
     current_season_start |-> now, last_reset |-> None]

NewStreakInfo == [current |-> new_streak, best |-> new_streak]

\* UserProfile._create_new_profile of the v3.0 tree
create_new_profile(now) ==
    [version |-> SCHEMA_VERSION_CURRENT,
     last_updated |-> now,
     current_rank |-> "Cadet",
     current_score |-> 0,
     rank_achieved_at |-> None,
     total_sessions |-> 0,
     total_messages |-> 0,
     total_tokens |-> 0,
     avg_tokens_per_session |-> 0,
     scores |-> [c \in V3Categories |-> 0],
     streak_info |-> NewStreakInfo,
     seasonal_info |-> NewSeasonalInfo(now),
     history |-> <<>>,
     achievements |-> <<>>,
     legacy |-> None,
     migration |-> None]

\* the document UserProfile._create_new_profile of the v2.0 tree
\* (scripts/token_craft) writes: no version, no v3.0 fields
V2Document(now) ==
    [last_updated |-> now,
     current_rank |-> "Cadet",
     current_score |-> 0,
     rank_achieved_at |-> None,
     total_sessions |-> 0,
     total_messages |-> 0,
     total_tokens |-> 0,
     avg_tokens_per_session |-> 0,
     scores |-> [c \in V3Categories \cup {"self_sufficiency"} |-> 0],
     history |-> <<>>,
     achievements |-> <<>>]

\* what user_profile.json can hold when a UserProfile is constructed
PersistedDocuments ==
    { None,
      Some(create_new_profile(DateName(1))),
      Some(V2Document(DateName(1))),
      Some(Put(V2Document(DateName(1)), "version", SCHEMA_VERSION_LEGACY)) }

\* the rounds of update_from_analysis the model follows on one document
MaxHistory == 2

\* (score_data, rank_data) pairs given to update_from_analysis
Breakdown(score, sessions, tokens, avg) ==
    [c \in V3Categories |->
        IF c = "token_efficiency"
        THEN [score |-> score,
              details |-> [total_sessions |-> sessions, total_tokens |-> tokens,
                           avg_tokens_per_session |-> avg]]
        ELSE [score |-> score \div 5]]

AnalysisInputs ==
    { [total_score |-> 7180, rank_name |-> "Captain", breakdown |-> Breakdown(1250, 0, 0, 0)],
      [total_score |-> 12345, rank_name |-> "Admiral",
       breakdown |-> Breakdown(2500, 20, 400000, 20000)] }

\* UserProfile._load_profile: the document as it is on disk, a new profile if
\* there is no file
load_profile(document, now) ==
    IF document # None THEN document[1] ELSE create_new_profile(now)

update_from_analysis_StampVersion(d, score_data, now) ==
    Put(d, "version", SCHEMA_VERSION_CURRENT)

update_from_analysis(d, score_data, now) ==
    LET old_rank == Get(d, "current_rank", None)
        new_rank == score_data.rank_name
        new_score == score_data.total_score
        rank_changed == old_rank # new_rank
        event == [timestamp |-> now, event |-> "rank_change", old_rank |-> old_rank,
                  new_rank |-> new_rank, score |-> new_score]
        details == score_data.breakdown["token_efficiency"].details
        total_messages == IF Get(d, "total_messages", 0) = 0
                          THEN details.total_sessions * 10
                          ELSE d["total_messages"]
    IN  [x \in DOMAIN d \cup {"last_updated", "current_rank", "current_score", "scores",
                             "total_sessions", "total_tokens", "avg_tokens_per_session",
                             "total_messages"}
                          \cup (IF rank_changed THEN {"rank_achieved_at"} ELSE {}) |->
            CASE x = "last_updated" -> now
              [] x = "current_rank" -> new_rank
              [] x = "current_score" -> new_score
              [] x = "rank_achieved_at" /\ rank_changed -> now
              [] x = "history" /\ rank_changed -> Append(d["history"], event)
              [] x = "scores" -> [c \in V3Categories |-> score_data.breakdown[c].score]
              [] x = "total_sessions" -> details.total_sessions
              [] x = "total_tokens" -> details.total_tokens
              [] x = "avg_tokens_per_session" -> details.avg_tokens_per_session
              [] x = "total_messages" -> total_messages
              [] OTHER -> d[x]]

\* UserProfile(...): the constructor loads the document
LoadProfile ==
    /\ \E now \in SessionDates :
          /\ data' = Some(load_profile(disk, now))
          /\ call' = <<"UserProfile", now>>
    /\ profile_pc' = "loaded"
    /\ UNCHANGED <<disk, run_ret, processes, streak_vars, ach_vars, mig_vars, score_vars>>

UpdateFromAnalysis ==
    /\ data # None
    /\ Len(data[1]["history"]) < MaxHistory
    /\ \E score_data \in AnalysisInputs, now \in SessionDates :
          /\ data' = Some(update_from_analysis(data[1], score_data, now))
          /\ call' = <<"update_from_analysis", score_data, now>>
    /\ profile_pc' = "updated"
    /\ UNCHANGED <<disk, run_ret, processes, streak_vars, ach_vars, mig_vars, score_vars>>

save_KeepExisting(document, d) == IF document = None THEN Some(d) ELSE document

\* UserProfile.save: open(self.profile_path, "w") and json.dump(self.data);
\* the document the file held is not read
save(document, d) == Some(d)

Save ==
    /\ data # None
    /\ disk' = save(disk, data[1])
    /\ profile_pc' = IF profile_pc = "updated" THEN "cycle_done" ELSE "saved"
    /\ call' = <<"save">>
    /\ UNCHANGED <<data, run_ret, processes, streak_vars, ach_vars, mig_vars, score_vars>>

\* TokenCraftHandler().run(): the constructor loads the profile; run returns
\* early without history data; otherwise calculate_scores passes user_rank= to
\* TokenCraftScorer.__init__, which has no such parameter: the TypeError is
\* caught by run's except clause and the profile is neither updated nor saved
HandlerRun ==
    /\ \E has_history \in BOOLEAN, now \in SessionDates :
          /\ data' = Some(load_profile(disk, now))
          /\ run_ret' = IF has_history THEN "Error running Token-Craft"
                        ELSE "No history data found"
          /\ call' = <<"run", has_history, now>>
    /\ profile_pc' = "loaded"
    /\ UNCHANGED <<disk, processes, streak_vars, ach_vars, mig_vars, score_vars>>

InitProfile ==
    /\ disk = None
    /\ data = None
    /\ profile_pc = "none"
    /\ run_ret = None
    /\ processes = <<>>

(***************************************************************************)
(* MigrationEngine (migration_engine.py).  A profile's "scores" is a       *)
(* reference <<"ref", n>> to heap[n]: dict(old_profile) copies the         *)
(* reference, not the dict.                                                *)
(***************************************************************************)
Ref(n) == <<"ref", n>>

\* the reference of a new dict: the profile given to MigrationEngine refers to
\* heap[1] at most, and the dict a former call made is garbage by now
FreshRef == 2

\* [snapshot, heap]: old_profile.get("scores", {}) makes a new dict when the
\* profile has none
create_migration_snapshot(prof, h, now) ==
    LET fresh == "scores" \notin DOMAIN prof
    IN  [snapshot |->
            [v2_final_score |-> Get(prof, "current_score", 0),
             v2_current_rank |-> Get(prof, "current_rank", "Cadet"),
             v2_scores |-> IF fresh THEN Ref(FreshRef) ELSE prof["scores"],
             v2_total_sessions |-> Get(prof, "total_sessions", 0),
             v2_total_tokens |-> Get(prof, "total_tokens", 0),
             migration_timestamp |-> now],
         heap |-> IF fresh THEN [n \in 1..FreshRef |-> IF n = FreshRef THEN <<>> ELSE h[n]]
                  ELSE h]

RECURSIVE DelAll(_, _)
DelAll(d, cats) ==
    IF cats = <<>> THEN d
    ELSE DelAll(IF Head(cats) \in DOMAIN d THEN Del(d, Head(cats)) ELSE d, Tail(cats))

\* del new_profile["scores"][cat] for the removed categories
RemoveCategories(prof, h) ==
    IF "scores" \in DOMAIN prof
    THEN [h EXCEPT ![prof["scores"][2]] = DelAll(@, REMOVED_CATEGORIES)]
    ELSE h

MigratedFields_KeepStreak(prof, snapshot, now) ==
    [x \in DOMAIN prof \cup {"version", "migration", "legacy", "streak_info",
                             "seasonal_info", "achievements"} |->
        CASE x = "version" -> SCHEMA_VERSION_CURRENT
          [] x = "migration" -> Some([source_version |-> SCHEMA_VERSION_LEGACY,
                                     target_version |-> SCHEMA_VERSION_CURRENT,
                                     migrated_at |-> now])
          [] x = "legacy" -> Some(snapshot)
          [] x = "streak_info" /\ x \notin DOMAIN prof -> NewStreakInfo
          [] x = "seasonal_info" -> NewSeasonalInfo(now)
          [] x = "achievements" /\ x \notin DOMAIN prof -> <<>>
          [] OTHER -> prof[x]]

\* new_profile = dict(old_profile) with the v3.0 fields set
MigratedFields(prof, snapshot, now) ==
    [x \in DOMAIN prof \cup {"version", "migration", "legacy", "streak_info",
                             "seasonal_info", "achievements"} |->
        CASE x = "version" -> SCHEMA_VERSION_CURRENT
          [] x = "migration" -> Some([source_version |-> SCHEMA_VERSION_LEGACY,
                                     target_version |-> SCHEMA_VERSION_CURRENT,
                                     migrated_at |-> now])
          [] x = "legacy" -> Some(snapshot)
          [] x = "streak_info" -> NewStreakInfo
          [] x = "seasonal_info" -> NewSeasonalInfo(now)
          [] x = "achievements" /\ x \notin DOMAIN prof -> <<>>
          [] OTHER -> prof[x]]

\* [profile, heap]
migrate_profile(prof, h, now) ==
    Only({ Only({ [profile |-> np, heap |-> RemoveCategories(np, snap.heap)]
                  : np \in {MigratedFields(prof, snap.snapshot, now)} })
           : snap \in {create_migration_snapshot(prof, h, now)} })

need_migration(prof) == Get(prof, "version", "2.0") # SCHEMA_VERSION_CURRENT

validate_migration(prof, h) ==
    LET errors ==
            (IF "version" \notin DOMAIN prof \/ prof["version"] # SCHEMA_VERSION_CURRENT
             THEN {"Invalid schema version"} ELSE {})
            \cup (IF /\ "scores" \in DOMAIN prof
                     /\ \E i \in 1..Len(REMOVED_CATEGORIES) :
                           REMOVED_CATEGORIES[i] \in DOMAIN h[prof["scores"][2]]
                  THEN {"Old category still in scores"} ELSE {})
        warnings ==
            (IF "streak_info" \notin DOMAIN prof THEN {"Missing streak_info field"} ELSE {})
            \cup (IF "seasonal_info" \notin DOMAIN prof
                  THEN {"Missing seasonal_info field"} ELSE {})
            \cup (IF "legacy" \notin DOMAIN prof THEN {"Missing legacy snapshot"} ELSE {})
    IN  [valid |-> errors = {}, errors |-> errors, warnings |-> warnings,
         schema_version |-> Get(prof, "version", None)]

migrate_if_needed_Always(prof, h, now) ==
    migrate_profile(prof, h, now)

\* [profile, heap]
migrate_if_needed(prof, h, now) ==
    IF ~need_migration(prof) THEN [profile |-> prof, heap |-> h]
    ELSE migrate_profile(prof, h, now)

MigrateProfile ==
    /\ \E now \in SessionDates :
          /\ \E r \in {migrate_profile(old_profile, heap, now)} :
                /\ new_profile' = Some(r.profile)
                /\ heap' = r.heap
          /\ call' = <<"migrate_profile", now>>
    /\ UNCHANGED <<old_profile, mig_ret, streak_vars, ach_vars, profile_vars, score_vars>>

MigrateIfNeeded ==
    /\ \E now \in SessionDates :
          /\ \E r \in {migrate_if_needed(old_profile, heap, now)} :
                /\ new_profile' = Some(r.profile)
                /\ heap' = r.heap
          /\ call' = <<"migrate_if_needed", now>>
    /\ UNCHANGED <<old_profile, mig_ret, streak_vars, ach_vars, profile_vars, score_vars>>

\* migrate_if_needed(migrated): the profile a former call returned is
\* given to migrate_if_needed
MigrateIfNeededAgain ==
    /\ new_profile # None
    /\ \E now \in SessionDates :
          /\ \E r \in {migrate_if_needed(new_profile[1], heap, now)} :
                /\ new_profile' = Some(r.profile)
                /\ heap' = r.heap
          /\ call' = <<"migrate_if_needed_again", now>>
    /\ UNCHANGED <<old_profile, mig_ret, streak_vars, ach_vars, profile_vars, score_vars>>

NeedMigration ==
    /\ mig_ret' = need_migration(old_profile)
    /\ call' = <<"need_migration">>
    /\ UNCHANGED <<heap, old_profile, new_profile, streak_vars, ach_vars, profile_vars, score_vars>>

ValidateMigration ==
    /\ new_profile # None
    /\ mig_ret' = validate_migration(new_profile[1], heap)
    /\ call' = <<"validate_migration">>
    /\ UNCHANGED <<heap, old_profile, new_profile, streak_vars, ach_vars, profile_vars, score_vars>>

InitMig ==
    /\ heap = <<>>
    /\ old_profile = None
    /\ new_profile = None
    /\ mig_ret = None

(***************************************************************************)
(* TokenCraftScorer (scoring_engine.py), DifficultyModifier, ComboBonus    *)
(* and TimeBasedMechanics.                                                 *)
(*                                                                         *)
(* usage holds the numbers _prepare_data and the evaluators count in       *)
(* history_data, stats_data, the project directories and MEMORY.md.        *)
(* Python floats are computed as exact rationals; a category score is in   *)
(* tenths of a point, and a score an evaluator has not rounded yet is in   *)
(* millionths of a point.                                                  *)
(***************************************************************************)
WEIGHTS ==
    [token_efficiency |-> 2500, optimization_adoption |-> 4000,
     improvement_trend |-> 1250, waste_awareness |-> 1000,
     cache_effectiveness |-> 750, tool_efficiency |-> 750,
     cost_efficiency |-> 750, session_focus |-> 750,
     learning_growth |-> 750, best_practices |-> 500]

BONUS_WEIGHTS ==
    [streak_multiplier |-> 750, combo_bonuses |-> 1500,
     achievement_rewards |-> 2000, rank_prestige |-> 1500]

DEFAULT_BASELINE == [tokens_per_session |-> 30000]

\* multiplier in hundredths
RANK_BASELINES ==
    << [tokens_per_session |-> 35000, multiplier |-> 100],
       [tokens_per_session |-> 33500, multiplier |-> 96],
       [tokens_per_session |-> 32000, multiplier |-> 91],
       [tokens_per_session |-> 30000, multiplier |-> 86],
       [tokens_per_session |-> 28000, multiplier |-> 80],
       [tokens_per_session |-> 26000, multiplier |-> 74],
       [tokens_per_session |-> 24000, multiplier |-> 69],
       [tokens_per_session |-> 22000, multiplier |-> 63],
       [tokens_per_session |-> 21000, multiplier |-> 60],
       [tokens_per_session |-> 20000, multiplier |-> 57] >>

\* adoption expected by rank, in percent
OPTIMIZATION_THRESHOLDS == <<30, 35, 40, 45, 50, 55, 60, 65, 70, 75>>

\* rank = max(1, min(10, rank))
get_difficulty(rank) ==
    LET clamped == Max(1, Min(10, rank))
    IN  [rank |-> clamped,
         tokens_per_session |-> RANK_BASELINES[clamped].tokens_per_session,
         multiplier |-> RANK_BASELINES[clamped].multiplier,
         optimization_threshold |-> OPTIMIZATION_THRESHOLDS[clamped]]

\* one point in millionths
Micro == 1000 * 1000

\* floor(a * n / d) for a, n >= 0 and d > 0, without forming a * n
MulDiv(a, n, d) == (a \div d) * n + ((a % d) * n) \div d

\* round(num / den) to the nearest integer, ties to the even one (num >= 0)
Round(num, den) ==
    LET q == num \div den
        r == num % den
    IN  IF 2 * r > den \/ (2 * r = den /\ q % 2 = 1) THEN q + 1 ELSE q

\* round(score, 1) of a score in millionths, in tenths
Round1(micro) == Round(micro, Micro \div 10)

CategoryScore(score, max_score) == [score |-> score, max_score |-> max_score]

Raised(exception) == [raised |-> exception]

HasRaised(r) == "raised" \in DOMAIN r

\* _calculate_total_tokens: input and output tokens of every model
total_tokens(u) == IF u.models THEN u.input_tokens + u.output_tokens ELSE 0

\* total_tokens / total_sessions; the token totals of the model are whole
\* multiples of the session counts
avg_tokens_per_session(u) ==
    IF u.total_sessions > 0 THEN total_tokens(u) \div u.total_sessions ELSE 0

\* math.log(1 + 1 / ratio) / math.log(2) in millionths, for ratio =
\* user_avg / baseline > 1
LogComponent(user_avg, baseline) ==
    CASE <<user_avg, baseline>> = <<45000, 35000>> -> 830075
      [] <<user_avg, baseline>> = <<45000, 30000>> -> 736966
      [] <<user_avg, baseline>> = <<45000, 20000>> -> 530515
      [] <<user_avg, baseline>> = <<30000, 20000>> -> 736966
      [] <<user_avg, baseline>> = <<21000, 20000>> -> 965235

\* multiplier ** 1.5 in ten-thousandths, by rank
MultiplierPow15 ==
    <<10000, 9406, 8681, 7975, 7155, 6366, 5732, 5000, 4648, 4303>>

\* DifficultyModifier.apply_token_efficiency_difficulty, score in millionths
apply_token_efficiency_difficulty(score, user_avg, baseline, rank) ==
    LET difficulty == get_difficulty(rank)
    IN  IF user_avg <= baseline THEN score
        ELSE IF 2 * user_avg <= 3 * baseline
             THEN MulDiv(score, difficulty.multiplier, 100)
             ELSE MulDiv(score, MultiplierPow15[difficulty.rank], 10000)

\* DifficultyModifier.apply_optimization_difficulty, score in millionths and
\* adoption_rate in percent; OPTIMIZATION_THRESHOLDS.get(rank, 0.30)
apply_optimization_difficulty(score, adoption_rate, rank) ==
    LET threshold == IF rank \in 1..Len(OPTIMIZATION_THRESHOLDS)
                     THEN OPTIMIZATION_THRESHOLDS[rank] ELSE 30
    IN  IF adoption_rate >= threshold THEN score
        ELSE MulDiv(score, adoption_rate, threshold)

calculate_token_efficiency_score(u, rank) ==
    LET adjusted_baseline == get_difficulty(rank).tokens_per_session
        user_avg == avg_tokens_per_session(u)
        max_points == WEIGHTS.token_efficiency
    IN  IF adjusted_baseline = 0 \/ user_avg = 0
        THEN CategoryScore(1250, max_points)
        ELSE LET base_score ==
                     IF user_avg <= adjusted_baseline
                     THEN (max_points \div 10) * Micro
                     ELSE (max_points \div 10) * LogComponent(user_avg, adjusted_baseline)
                 difficulty_adjusted_score ==
                     apply_token_efficiency_difficulty(base_score, user_avg,
                                                       adjusted_baseline, rank)
             IN  \* "difficulty_multiplier": RANK_BASELINES[self.user_rank]
                 IF rank \notin 1..Len(RANK_BASELINES)
                 THEN Raised("KeyError")
                 ELSE CategoryScore(Round1(difficulty_adjusted_score), max_points)

\* _calculate_tier_score for consistency n / d, in millionths of a point
calculate_tier_score(n, d, max_points) ==
    LET M == max_points * Micro
    IN  IF 10 * n >= 9 * d THEN M
        ELSE IF 10 * n >= 7 * d
             THEN (M \div 1000) * 325 + MulDiv((M \div 4) * 3, n, d)
        ELSE IF 10 * n >= 5 * d
             THEN (M \div 100) * 15 + MulDiv(M, n, d)
        ELSE IF 10 * n >= 3 * d
             THEN (M \div 1000) * 25 + MulDiv((M \div 4) * 5, n, d)
        ELSE MulDiv(4 * M, n, 3 * d)

\* the three projects with most sessions
top_projects(u) == Min(3, u.projects)

\* the eight checks of calculate_optimization_adoption_score, each the
\* _calculate_tier_score of its consistency (a fraction <<n, d>>) and its
\* maximum; scores in millionths
optimization_checks(u) ==
    LET TS == u.total_sessions
        TM == u.total_messages
        Check(n, d, max_points) ==
            [score |-> calculate_tier_score(n, d, max_points),
             max_score |-> max_points, consistency |-> <<n, d>>]
        total_opportunities == TS * 2
        direct_commands == Max(0, total_opportunities - u.ai_command_count)
        \* _check_xml_usage, _check_chain_of_thought, _check_examples_usage
        check_sessions_with(count, max_points) ==
            IF TS > 0 THEN Check(count, TS, max_points) ELSE Check(0, 1, max_points)
    IN  [defer_docs |->
             IF u.doc_sessions > 0 THEN Check(u.deferred_sessions, u.doc_sessions, 50)
             ELSE Check(1, 2, 50),
         claude_md |->
             IF top_projects(u) > 0 THEN Check(u.with_claude_md, top_projects(u), 50)
             ELSE Check(0, 1, 50),
         \* has_concise_preference: MEMORY.md says so, or messages average
         \* under 200 characters
         concise_mode |->
             IF u.concise_preference THEN Check(1, 1, 40) ELSE Check(3, 10, 40),
         direct_commands |->
             IF total_opportunities > 0
             THEN Check(direct_commands, total_opportunities, 60)
             ELSE Check(1, 2, 60),
         context_mgmt |->
             IF TS = 0
             THEN [score |-> 25 * Micro, max_score |-> 50, consistency |-> <<1, 2>>]
             ELSE IF 5 * TS <= TM /\ TM <= 15 * TS THEN Check(1, 1, 50)
             ELSE IF TM < 5 * TS THEN Check(6, 10, 50)
             ELSE \* max(0.3, 1.0 - (avg_messages_per_session - 15) / 50)
                  IF 10 * (65 * TS - TM) >= 3 * 50 * TS
                  THEN Check(65 * TS - TM, 50 * TS, 50)
                  ELSE Check(3, 10, 50),
         xml_tags |-> check_sessions_with(u.xml_sessions, 20),
         chain_of_thought |-> check_sessions_with(u.cot_sessions, 30),
         examples |-> check_sessions_with(u.example_sessions, 25)]

calculate_optimization_adoption_score(u) ==
    Only({ CategoryScore(Round1(scores.defer_docs.score + scores.claude_md.score
                                + scores.concise_mode.score
                                + scores.direct_commands.score
                                + scores.context_mgmt.score + scores.xml_tags.score
                                + scores.chain_of_thought.score
                                + scores.examples.score),
                         WEIGHTS.optimization_adoption)
           : scores \in {optimization_checks(u)} })

\* previous_snapshot is None or <<dict>>; an empty dict is falsy
calculate_improvement_trend_score(u, snapshot) ==
    LET max_score == WEIGHTS.improvement_trend
    IN  IF u.total_sessions < 10 THEN CategoryScore(500, max_score)
        ELSE IF snapshot = None \/ DOMAIN snapshot[1] = {}
             THEN CategoryScore(500, max_score)
        ELSE LET prev_avg == Get(snapshot[1], "avg_tokens_per_session",
                                 DEFAULT_BASELINE.tokens_per_session)
                 current_avg == avg_tokens_per_session(u)
                 \* improvement_pct >= p, for improvement_pct =
                 \* (prev_avg - current_avg) / prev_avg * 100
                 AtLeast(p) == IF prev_avg = 0 THEN 0 >= p
                               ELSE 100 * (prev_avg - current_avg) >= p * prev_avg
             IN  IF AtLeast(10) THEN CategoryScore(1500, max_score)
                 ELSE IF AtLeast(5) THEN CategoryScore(1000, max_score)
                 ELSE IF AtLeast(2) THEN CategoryScore(500, max_score)
                 ELSE IF AtLeast(0) THEN CategoryScore(200, max_score)
                 ELSE CategoryScore(0, max_score)

calculate_best_practices_score(u) ==
    LET claude_md_score == MulDiv(30 * Micro, u.with_claude_md, Max(1, top_projects(u)))
        memory_score == IF u.memory_optimizations THEN 10 * Micro ELSE 0
        total_score == claude_md_score + memory_score + 10 * Micro
    IN  CategoryScore(Round1(total_score), WEIGHTS.best_practices)

\* score = cache_hit_rate / 100 * 75 with cache_hit_rate =
\* cache reads / (cache reads + regular input) * 100
calculate_cache_effectiveness_score(u) ==
    LET max_points == WEIGHTS.cache_effectiveness
        total_input_opportunities == u.cache_reads + u.input_tokens
    IN  IF ~u.models THEN CategoryScore(0, max_points)
        ELSE IF total_input_opportunities = 0 THEN CategoryScore(0, max_points)
        ELSE CategoryScore(Round(max_points * u.cache_reads, total_input_opportunities),
                           max_points)

calculate_session_focus_score(u) ==
    LET TS == u.total_sessions
        TM == u.total_messages
        max_score == WEIGHTS.session_focus
    IN  IF TS = 0 THEN CategoryScore(250, max_score)
        ELSE IF 5 * TS <= TM /\ TM <= 15 * TS THEN CategoryScore(500, max_score)
        ELSE IF (3 * TS <= TM /\ TM < 5 * TS) \/ (15 * TS < TM /\ TM <= 20 * TS)
             THEN CategoryScore(400, max_score)
        ELSE IF (TS <= TM /\ TM < 3 * TS) \/ (20 * TS < TM /\ TM <= 30 * TS)
             THEN CategoryScore(200, max_score)
        ELSE CategoryScore(0, max_score)

\* the score of the first step whose percentage n / d * 100 reaches its
\* threshold, steps being <<threshold, score>>, else lowest
TierOf(n, d, steps, lowest) ==
    LET reached == {i \in 1..Len(steps) : 100 * n >= steps[i][1] * d}
    IN  IF reached = {} THEN lowest ELSE steps[SetMin(reached)][2]

calculate_tool_efficiency_score(u) ==
    LET total_edits == u.read_before_edit + u.edit_without_read
        read_score ==
            IF total_edits > 0
            THEN TierOf(u.read_before_edit, total_edits,
                        << <<90, 30>>, <<75, 25>>, <<60, 20>>, <<40, 15>> >>, 10)
            ELSE 30
        total_tool_turns == u.parallel_turns + u.single_turns
        parallel_score ==
            IF total_tool_turns > 0
            THEN TierOf(u.parallel_turns, total_tool_turns,
                        << <<40, 25>>, <<30, 20>>, <<20, 15>>, <<10, 10>> >>, 5)
            ELSE 12
        total_search == u.glob_grep + u.bash_find_grep
        glob_score ==
            IF total_search > 0
            THEN TierOf(u.glob_grep, total_search,
                        << <<90, 20>>, <<75, 16>>, <<50, 12>>, <<25, 8>> >>, 4)
            ELSE 20
        max_score == WEIGHTS.tool_efficiency
    IN  \* "if not self.history_data"
        IF u.total_messages = 0 THEN CategoryScore(370, max_score)
        ELSE CategoryScore(10 * (read_score + parallel_score + glob_score), max_score)

\* avg_cost_per_session = avg tokens / 1000000 * 9.0, against 0.27 dollars;
\* compared in millionths of a dollar, times the number of sessions
calculate_cost_efficiency_score(u) ==
    LET TS == Max(1, u.total_sessions)
        cost == IF u.total_sessions > 0 THEN 9 * total_tokens(u) ELSE 0
        cost_score ==
            IF cost <= 189000 * TS THEN 40
            ELSE IF cost <= 229500 * TS THEN 35
            ELSE IF cost <= 270000 * TS THEN 30
            ELSE IF cost <= 324000 * TS THEN 20
            ELSE IF cost <= 405000 * TS THEN 10
            ELSE 5
        total_cache_reads == IF u.models THEN u.cache_reads ELSE 0
        cache_contribution ==
            IF total_cache_reads > 10000 THEN 20
            ELSE IF total_cache_reads > 5000 THEN 15
            ELSE IF total_cache_reads > 1000 THEN 10
            ELSE 5
        \* three sessions a day
        daily_cost_estimate == 3 * cost
        budget_score ==
            IF daily_cost_estimate <= 2000000 * TS THEN 15
            ELSE IF daily_cost_estimate <= 5000000 * TS THEN 12
            ELSE IF daily_cost_estimate <= 7000000 * TS THEN 8
            ELSE 4
    IN  CategoryScore(10 * (cost_score + cache_contribution + budget_score),
                      WEIGHTS.cost_efficiency)

\* early and recent are the first and last third of history_data
calculate_learning_growth_score(u) ==
    LET max_score == WEIGHTS.learning_growth
        efficiency_score ==
            IF u.early_tokens > 0 /\ u.recent_tokens > 0
            THEN LET gain == u.early_tokens - u.recent_tokens
                 IN  IF 100 * gain >= 20 * u.early_tokens THEN 25
                     ELSE IF 100 * gain >= 10 * u.early_tokens THEN 20
                     ELSE IF 100 * gain >= 5 * u.early_tokens THEN 15
                     ELSE IF gain >= 0 THEN 10
                     ELSE 0
            ELSE 0
        recent_sessions == Max(1, u.total_messages \div 3)
        consistency_score ==
            TierOf(u.optimal_sessions, recent_sessions,
                   << <<70, 25>>, <<50, 18>>, <<30, 12>> >>, 0)
        \* the two thirds have the same number of sessions
        autonomy_score ==
            IF 10 * u.recent_msgs < 8 * u.early_msgs THEN 25
            ELSE IF 10 * u.recent_msgs < 9 * u.early_msgs THEN 20
            ELSE IF u.recent_msgs < u.early_msgs THEN 15
            ELSE IF 10 * u.recent_msgs <= 11 * u.early_msgs THEN 10
            ELSE 0
    IN  IF u.total_sessions < 10 THEN CategoryScore(0, max_score)
        ELSE IF u.total_messages = 0 THEN CategoryScore(250, max_score)
        ELSE CategoryScore(10 * (efficiency_score + consistency_score + autonomy_score),
                           max_score)

\* three signals: varied prompt lengths, late sessions at least 5% cheaper
\* than early ones, three or more projects
calculate_waste_awareness_score(u) ==
    LET max_points == WEIGHTS.waste_awareness
        varied == IF u.varied_prompt_lengths THEN 1 ELSE 0
        third == u.token_sessions \div 3
        trend == IF /\ u.token_sessions >= 5
                    /\ third > 0
                    /\ u.early_session_tokens > 0
                    /\ u.late_session_tokens < u.early_session_tokens
                    /\ 100 * (u.early_session_tokens - u.late_session_tokens)
                           >= 5 * u.early_session_tokens
                 THEN 1 ELSE 0
        diversity == IF u.projects >= 3 THEN 1 ELSE 0
        waste_signals == varied + trend + diversity
        signal_weight == max_points \div 5
    IN  CategoryScore(Min(waste_signals * signal_weight, max_points), max_points)

\* ComboBonus (streak_system.py): 80% of the maximum is excellent
COMBO_THRESHOLD == 80

COMBO_TIERS ==
    << [categories |-> 2, bonus |-> 25, name |-> "Focused"],
       [categories |-> 3, bonus |-> 50, name |-> "Well-Rounded"],
       [categories |-> 4, bonus |-> 100, name |-> "Proficiency"],
       [categories |-> 5, bonus |-> 150, name |-> "MASTERY"] >>

\* min(1.0, score / max_score) as <<numerator, denominator>>, 0 for max_score 0
calculate_category_percentage(score, max_score) ==
    IF max_score = 0 THEN <<0, 1>>
    ELSE IF score >= max_score THEN <<1, 1>>
    ELSE <<score, max_score>>

check_combo_FirstTier(category_scores) ==
    LET percentages ==
            [c \in DOMAIN category_scores |->
                calculate_category_percentage(category_scores[c].score,
                                              category_scores[c].max_score)]
        excellent_categories ==
            Cardinality({c \in DOMAIN percentages :
                            100 * percentages[c][1] >= COMBO_THRESHOLD * percentages[c][2]})
                met == {i \in 1..Len(COMBO_TIERS) : excellent_categories >= COMBO_TIERS[i].categories}
        bonus_tier == COMBO_TIERS[CHOOSE i \in met : \A j \in met : i <= j]
    IN  [combo_active |-> excellent_categories >= 2,
         excellent_categories |-> excellent_categories,
         bonus_points |-> IF met = {} THEN 0 ELSE bonus_tier.bonus,
         tier_name |-> IF met = {} THEN "None" ELSE bonus_tier.name]

check_combo(category_scores) ==
    LET percentages ==
            [c \in DOMAIN category_scores |->
                calculate_category_percentage(category_scores[c].score,
                                              category_scores[c].max_score)]
        excellent_categories ==
            Cardinality({c \in DOMAIN percentages :
                            100 * percentages[c][1] >= COMBO_THRESHOLD * percentages[c][2]})
        \* bonus_tier: the last tier whose count is reached
        met == {i \in 1..Len(COMBO_TIERS) : excellent_categories >= COMBO_TIERS[i].categories}
        bonus_tier == COMBO_TIERS[CHOOSE i \in met : \A j \in met : j <= i]
    IN  [combo_active |-> excellent_categories >= 2,
         excellent_categories |-> excellent_categories,
         bonus_points |-> IF met = {} THEN 0 ELSE bonus_tier.bonus,
         tier_name |-> IF met = {} THEN "None" ELSE bonus_tier.name]

\* TimeBasedMechanics (time_based_mechanics.py); multipliers in hundredths
calculate_recency_bonus(days_ago) ==
    IF days_ago = 0 THEN 125
    ELSE IF days_ago <= 7 THEN 115
    ELSE IF days_ago <= 14 THEN 105
    ELSE 100

calculate_inactivity_decay_NoDecay(days_inactive) == 100

calculate_inactivity_decay(days_inactive) ==
    IF days_inactive <= 3 THEN 100
    ELSE IF days_inactive <= 7 THEN 95
    ELSE IF days_inactive <= 14 THEN 85
    ELSE IF days_inactive <= 30 THEN 70
    ELSE 50

\* base_score in thousandths of a point, session_date and last_session_date
\* as days before now, last_session_date None when the profile has none;
\* adjusted_score = round(base_score * recency * decay, 1) in tenths
apply_time_modifiers(base_score, session_date, last_session_date) ==
    LET recency_mult == calculate_recency_bonus(session_date)
        decay_mult == IF last_session_date = None THEN 100
                      ELSE calculate_inactivity_decay(last_session_date[1])
    IN  [base_score |-> base_score,
         adjusted_score |->
             Round(base_score * (recency_mult \div 5) * (decay_mult \div 5), 40000),
         recency_multiplier |-> recency_mult,
         decay_multiplier |-> decay_mult]

\* get_days_since: (now - past_date).days, the whole days in a time elapsed
\* that is counted in half days (dates the program wrote always parse)
get_days_since(elapsed) == elapsed \div 2

calculate_seasonal_reset_After31(last_reset_date) ==
    IF last_reset_date = None
    THEN [should_reset |-> TRUE, days_until_reset |-> 30]
    ELSE IF get_days_since(last_reset_date[1]) >= 31
         THEN [should_reset |-> TRUE, days_until_reset |-> 0]
         ELSE [should_reset |-> FALSE,
               days_until_reset |-> Max(0, get_days_since(2 * 30 - last_reset_date[1]))]

\* last_reset_date is None or <<the time elapsed since, in half days>>;
\* next_reset - now is 30 days less the time elapsed
calculate_seasonal_reset(last_reset_date) ==
    IF last_reset_date = None
    THEN [should_reset |-> TRUE, days_until_reset |-> 30]
    ELSE IF get_days_since(last_reset_date[1]) >= 30
         THEN [should_reset |-> TRUE, days_until_reset |-> 0]
         ELSE [should_reset |-> FALSE,
               days_until_reset |-> Max(0, get_days_since(2 * 30 - last_reset_date[1]))]

\* scores given in tenths, returned in hundredths
apply_seasonal_reset(current_season_score, lifetime_score) ==
    LET season_contribution == current_season_score * 5
    IN  [old_season_score |-> current_season_score * 10,
         new_season_score |-> 0,
         season_contribution_to_lifetime |-> season_contribution,
         old_lifetime_score |-> lifetime_score * 10,
         new_lifetime_score |-> lifetime_score * 10 + season_contribution]

\* RegressionDetector (regression_detector.py).  Efficiencies are in
\* hundredths, the scores of one call all in the same unit, percentages
\* returned in tenths of a percent.
TOKEN_EFFICIENCY_REGRESSION_THRESHOLD == 5

SCORE_DROP_THRESHOLD == 10

CONSECUTIVE_DECLINES_FOR_REGRESSION == 3

\* drop_pct = max(0, 1.0 - current_efficiency / personal_best_efficiency)
detect_efficiency_regression(current_efficiency, personal_best_efficiency) ==
    IF personal_best_efficiency <= 0
    THEN [has_regressed |-> FALSE, efficiency_drop_pct |-> 0]
    ELSE LET drop == Max(0, personal_best_efficiency - current_efficiency)
         IN  [has_regressed |->
                  100 * drop >= TOKEN_EFFICIENCY_REGRESSION_THRESHOLD * personal_best_efficiency,
              efficiency_drop_pct |-> Round(1000 * drop, personal_best_efficiency)]

RECURSIVE sum(_)
sum(xs) == IF xs = <<>> THEN 0 ELSE Head(xs) + sum(Tail(xs))

\* drop_pct = max(0, (recent_avg - current_score) / recent_avg) with
\* recent_avg = sum(recent_scores) / len(recent_scores)
detect_score_regression(current_score, recent_scores) ==
    LET n == Len(recent_scores)
        total == sum(recent_scores)
        drop == Max(0, total - n * current_score)
    IN  IF n < 2
        THEN [has_regressed |-> FALSE, trend |-> "new_or_insufficient_data",
              score_drop_pct |-> 0]
        ELSE IF total <= 0
        THEN [has_regressed |-> FALSE, trend |-> "baseline_zero", score_drop_pct |-> 0]
        ELSE [has_regressed |-> 100 * drop >= SCORE_DROP_THRESHOLD * total,
              trend |-> IF recent_scores[n] < recent_scores[n - 1]
                        THEN "declining" ELSE "stable",
              score_drop_pct |-> Round(1000 * drop, total)]

detect_consecutive_decline_CountAll(recent_scores) ==
    LET n == Len(recent_scores)
        consecutive_declines ==
            Cardinality({i \in 2..n : recent_scores[i] < recent_scores[i - 1]})
    IN  IF n < CONSECUTIVE_DECLINES_FOR_REGRESSION
        THEN [has_consecutive_decline |-> FALSE, consecutive_count |-> 0]
        ELSE [has_consecutive_decline |->
                  consecutive_declines >= CONSECUTIVE_DECLINES_FOR_REGRESSION,
              consecutive_count |-> consecutive_declines]

\* the loop from the last score backwards, which breaks at the first score
\* that is not below the one before it
detect_consecutive_decline(recent_scores) ==
    LET n == Len(recent_scores)
        declines == {k \in 1..(n - 1) :
                        \A i \in (n - k + 1)..n : recent_scores[i] < recent_scores[i - 1]}
        consecutive_declines == Cardinality(declines)
    IN  IF n < CONSECUTIVE_DECLINES_FOR_REGRESSION
        THEN [has_consecutive_decline |-> FALSE, consecutive_count |-> 0]
        ELSE [has_consecutive_decline |->
                  consecutive_declines >= CONSECUTIVE_DECLINES_FOR_REGRESSION,
              consecutive_count |-> consecutive_declines]

analyze_regression_TwoSignals(current_score, current_efficiency, personal_best_efficiency, recent_scores) ==
    Only({ LET regression_signals ==
                   (IF r.efficiency.has_regressed THEN 1 ELSE 0)
                   + (IF r.score.has_regressed THEN 1 ELSE 0)
           IN  [has_regressed |-> regression_signals > 0,
                severity |-> CASE regression_signals = 0 -> "none"
                               [] regression_signals = 1 -> "minor"
                               [] regression_signals = 2 -> "moderate"
                               [] OTHER -> "severe",
                regression_signals |-> regression_signals,
                efficiency |-> r.efficiency,
                score |-> r.score,
                consecutive |-> r.consecutive]
           : r \in {[efficiency |-> detect_efficiency_regression(
                                        current_efficiency, personal_best_efficiency),
                     score |-> detect_score_regression(current_score, recent_scores),
                     consecutive |-> detect_consecutive_decline(recent_scores)]} })

analyze_regression(current_score, current_efficiency, personal_best_efficiency, recent_scores) ==
    Only({ LET regression_signals ==
                   (IF r.efficiency.has_regressed THEN 1 ELSE 0)
                   + (IF r.score.has_regressed THEN 1 ELSE 0)
                   + (IF r.consecutive.has_consecutive_decline THEN 1 ELSE 0)
           IN  [has_regressed |-> regression_signals > 0,
                severity |-> CASE regression_signals = 0 -> "none"
                               [] regression_signals = 1 -> "minor"
                               [] regression_signals = 2 -> "moderate"
                               [] OTHER -> "severe",
                regression_signals |-> regression_signals,
                efficiency |-> r.efficiency,
                score |-> r.score,
                consecutive |-> r.consecutive]
           : r \in {[efficiency |-> detect_efficiency_regression(
                                        current_efficiency, personal_best_efficiency),
                     score |-> detect_score_regression(current_score, recent_scores),
                     consecutive |-> detect_consecutive_decline(recent_scores)]} })

\* adjustment_factor in hundredths
calculate_difficulty_adjustment(regression_analysis) ==
    LET severity == Get(regression_analysis, "severity", "none")
    IN  CASE severity = "moderate" ->
               [should_adjust |-> TRUE, adjustment_factor |-> 95, duration_days |-> 7]
          [] severity = "severe" ->
               [should_adjust |-> TRUE, adjustment_factor |-> 85, duration_days |-> 14]
          [] OTHER ->
               [should_adjust |-> FALSE, adjustment_factor |-> 100, duration_days |-> 0]

\* the order in which calculate_total_score adds the category scores
Categories ==
    << "token_efficiency", "optimization_adoption", "improvement_trend",
       "waste_awareness", "best_practices", "cache_effectiveness",
       "tool_efficiency", "cost_efficiency", "session_focus", "learning_growth" >>

\* the sum of the first i categories' entries in a dict of numbers
RECURSIVE SumOver(_, _)
SumOver(d, i) == IF i = 0 THEN 0 ELSE SumOver(d, i - 1) + d[Categories[i]]

\* token_efficiency["score"] + ... + learning_growth["score"]
SumScores(breakdown) ==
    SumOver([c \in DOMAIN breakdown |-> breakdown[c].score], Len(Categories))

\* what the evaluator of a category returns
Evaluate(category, u, rank, snapshot) ==
    CASE category = "token_efficiency" -> calculate_token_efficiency_score(u, rank)
      [] category = "optimization_adoption" -> calculate_optimization_adoption_score(u)
      [] category = "improvement_trend" -> calculate_improvement_trend_score(u, snapshot)
      [] category = "waste_awareness" -> calculate_waste_awareness_score(u)
      [] category = "best_practices" -> calculate_best_practices_score(u)
      [] category = "cache_effectiveness" -> calculate_cache_effectiveness_score(u)
      [] category = "tool_efficiency" -> calculate_tool_efficiency_score(u)
      [] category = "cost_efficiency" -> calculate_cost_efficiency_score(u)
      [] category = "session_focus" -> calculate_session_focus_score(u)
      [] category = "learning_growth" -> calculate_learning_growth_score(u)

score_after_streak_NoMultiplier(base_total_score, streak_multiplier) ==
    base_total_score * 100

\* score_after_streak = base_total_score * streak_multiplier, in thousandths
\* (tenths times hundredths)
score_after_streak(base_total_score, streak_multiplier) ==
    base_total_score * streak_multiplier

\* calculate_total_score for a scorer built from usage u, a rank and a profile
\* holding the streak, the unlock list and last_updated
calculate_total_score(u, rank, snapshot, streak, unlocked, updated, recent) ==
    Only({
      IF \E c \in DOMAIN breakdown : HasRaised(breakdown[c])
      THEN [result |-> Raised("KeyError"), locals |-> None, unlocked |-> unlocked,
            newly |-> <<>>, ach_ret |-> <<>>]
      ELSE
      Only({
        Only({
          Only({
            [result |->
                [total_score |-> time_adjusted.adjusted_score,
                 base_score |-> b.base,
                 with_bonuses |-> Round(b.final, 100),
                 max_base |-> b.max_base,
                 max_achievable |-> b.max_base + BONUS_WEIGHTS.streak_multiplier
                                    + BONUS_WEIGHTS.combo_bonuses
                                    + BONUS_WEIGHTS.achievement_rewards
                                    + BONUS_WEIGHTS.rank_prestige,
                 breakdown |-> breakdown,
                 bonuses |->
                    [streak |-> [multiplier |-> b.streak_info.multiplier,
                                 bonus_points |-> b.streak_info.bonus_points,
                                 streak_length |-> b.streak_info.streak_length],
                     combo |-> [bonus_points |-> b.combo_result.bonus_points,
                                tier |-> b.combo_result.tier_name,
                                excellent_categories |->
                                    b.combo_result.excellent_categories],
                     time_modifiers |->
                        [recency_multiplier |-> time_adjusted.recency_multiplier,
                         decay_multiplier |-> time_adjusted.decay_multiplier],
                     achievements |->
                        [newly_unlocked |-> Len(progression.newly) + Len(excellence.newly),
                         total_unlocked |-> Len(excellence.unlocked)]],
                 regression_analysis |->
                    [has_regressed |-> b.regression_analysis.has_regressed,
                     severity |-> b.regression_analysis.severity,
                     efficiency |-> b.regression_analysis.efficiency,
                     score |-> b.regression_analysis.score],
                 newly_unlocked_achievements |-> progression.newly \o excellence.newly,
                 user_rank |-> rank,
                 version |-> "3.0"],
             locals |-> Some([base_total_score |-> b.base,
                              streak_multiplier |-> b.streak_info.multiplier,
                              streak_bonus_points |-> b.streak_info.bonus_points,
                              combo_bonus_points |-> b.combo_result.bonus_points,
                              score_after_streak |-> b.after_streak,
                              score_after_combo |-> b.after_combo,
                              final_score |-> b.final]),
             unlocked |-> excellence.unlocked,
             newly |-> progression.newly \o excellence.newly,
             ach_ret |-> excellence.newly]
            \* session_date is now
            : time_adjusted \in {apply_time_modifiers(b.final, 0, updated)} })
          : excellence \in {check_excellence_achievements(progression.unlocked, breakdown)} })
        : progression \in {check_progression_achievements(unlocked, rank)},
          b \in { LET base == SumScores(breakdown)
                      streak_info == get_streak_bonus(streak)
                      combo_result == check_combo(breakdown)
                      after_streak == score_after_streak(base, streak_info.multiplier)
                      \* score_after_streak + combo_bonus_points
                      after_combo == after_streak + 1000 * combo_result.bonus_points
                      \* final_score = score_after_combo + streak_bonus_points
                      final_score == after_combo + 1000 * streak_info.bonus_points
                      \* token_efficiency.get("efficiency_ratio", 1.0)
                      current_efficiency ==
                          Get(breakdown["token_efficiency"], "efficiency_ratio", 100)
                      personal_best_efficiency ==
                          Get(breakdown["token_efficiency"], "personal_best_efficiency",
                              current_efficiency)
                  IN  [base |-> base, streak_info |-> streak_info,
                       combo_result |-> combo_result,
                       after_streak |-> after_streak, after_combo |-> after_combo,
                       final |-> final_score,
                       \* current_score = final_score, in thousandths
                       regression_analysis |->
                           analyze_regression(final_score, current_efficiency,
                                              personal_best_efficiency,
                                              [i \in DOMAIN recent |-> 100 * recent[i]]),
                       \* sum(self.WEIGHTS.values())
                       max_base |-> SumOver(WEIGHTS, Len(Categories))] } })
      : breakdown \in {[c \in {Categories[i] : i \in 1..Len(Categories)} |->
                             Evaluate(c, u, rank, snapshot)]} })

\* one of the ten calculate_<category>_score methods, called on its own
CalculateCategoryScore(category) ==
    /\ score_ret' = Evaluate(category, usage, user_rank, previous_snapshot)
    /\ call' = <<"calculate_category_score", category>>
    /\ UNCHANGED <<usage, user_rank, previous_snapshot, last_updated, recent_session_scores,
                 totals>>
    /\ UNCHANGED <<streak_vars, ach_vars, profile_vars, mig_vars>>

CalculateTotalScore_AdvancesStreak ==
    /\ \E r \in {calculate_total_score(usage, user_rank, previous_snapshot,
                                        current_streak, unlocked_achievements,
                                        last_updated, recent_session_scores)} :
          /\ score_ret' = r.result
          /\ totals' = r.locals
          /\ unlocked_achievements' = r.unlocked
          /\ ach_ret' = r.ach_ret
          /\ reported' = Report(reported, r.newly)
    /\ call' = <<"calculate_total_score", previous_snapshot>>
    /\ UNCHANGED <<usage, user_rank, previous_snapshot, last_updated, recent_session_scores>>
    /\ current_streak' = ExtendStreak(current_streak)
    /\ best_streak' = UpdateBest(ExtendStreak(current_streak), best_streak)
    /\ UNCHANGED <<streak_ret, profile_vars, mig_vars>>

CalculateTotalScore_RewardsAchievements ==
    /\ \E r \in {calculate_total_score(usage, user_rank, previous_snapshot,
                                        current_streak, unlocked_achievements,
                                        last_updated, recent_session_scores)} :
          /\ score_ret' = IF HasRaised(r.result) THEN r.result
                          ELSE [r.result EXCEPT !.total_score = @ + 200 * Len(r.newly)]
          /\ totals' = r.locals
          /\ unlocked_achievements' = r.unlocked
          /\ ach_ret' = r.ach_ret
          /\ reported' = Report(reported, r.newly)
    /\ call' = <<"calculate_total_score", previous_snapshot>>
    /\ UNCHANGED <<usage, user_rank, previous_snapshot, last_updated, recent_session_scores>>
    /\ UNCHANGED <<streak_vars, profile_vars, mig_vars>>

CalculateTotalScore ==
    /\ \E r \in {calculate_total_score(usage, user_rank, previous_snapshot,
                                        current_streak, unlocked_achievements,
                                        last_updated, recent_session_scores)} :
          /\ score_ret' = r.result
          /\ totals' = r.locals
          /\ unlocked_achievements' = r.unlocked
          /\ ach_ret' = r.ach_ret
          /\ reported' = Report(reported, r.newly)
    /\ call' = <<"calculate_total_score", previous_snapshot>>
    /\ UNCHANGED <<usage, user_rank, previous_snapshot, last_updated, recent_session_scores>>
    /\ UNCHANGED <<streak_vars, profile_vars, mig_vars>>

InitScore ==
    /\ usage = None
    /\ user_rank = 1
    /\ previous_snapshot = None
    /\ last_updated = None
    /\ recent_session_scores = <<>>
    /\ score_ret = None
    /\ totals = None

\* what scorers of the model are given: no history and no stats; twelve
\* focused sessions of 30000 tokens with most practices adopted; twelve long
\* sessions of 45000 tokens with few practices adopted; four short sessions
\* of 21000 tokens
Scenarios ==
    LET NoUsage ==
            [total_sessions |-> 0, total_messages |-> 0, models |-> FALSE,
             input_tokens |-> 0, output_tokens |-> 0, cache_reads |-> 0,
             doc_sessions |-> 0, deferred_sessions |-> 0, projects |-> 0,
             with_claude_md |-> 0, concise_preference |-> FALSE,
             ai_command_count |-> 0, xml_sessions |-> 0, cot_sessions |-> 0,
             example_sessions |-> 0, memory_optimizations |-> FALSE,
             read_before_edit |-> 0, edit_without_read |-> 0, parallel_turns |-> 0,
             single_turns |-> 0, glob_grep |-> 0, bash_find_grep |-> 0,
             early_tokens |-> 0, recent_tokens |-> 0, optimal_sessions |-> 0,
             early_msgs |-> 0, recent_msgs |-> 0, varied_prompt_lengths |-> FALSE,
             token_sessions |-> 0, early_session_tokens |-> 0,
             late_session_tokens |-> 0]
        SteadyUsage ==
            [NoUsage EXCEPT
                !.total_sessions = 12, !.total_messages = 60, !.models = TRUE,
                !.input_tokens = 240000, !.output_tokens = 120000,
                !.cache_reads = 449000, !.doc_sessions = 4, !.deferred_sessions = 4,
                !.projects = 4, !.with_claude_md = 1, !.concise_preference = TRUE,
                !.xml_sessions = 12, !.cot_sessions = 12, !.example_sessions = 12,
                !.memory_optimizations = TRUE, !.read_before_edit = 3,
                !.parallel_turns = 2, !.single_turns = 8, !.bash_find_grep = 2,
                !.early_tokens = 1000, !.recent_tokens = 1200, !.optimal_sessions = 20,
                !.early_msgs = 200, !.recent_msgs = 100,
                !.varied_prompt_lengths = TRUE, !.token_sessions = 6,
                !.early_session_tokens = 1000, !.late_session_tokens = 900]
        HeavyUsage ==
            [NoUsage EXCEPT
                !.total_sessions = 12, !.total_messages = 264, !.models = TRUE,
                !.input_tokens = 400000, !.output_tokens = 140000, !.doc_sessions = 10,
                !.deferred_sessions = 5, !.projects = 2, !.ai_command_count = 24,
                !.xml_sessions = 3, !.cot_sessions = 6, !.read_before_edit = 1,
                !.edit_without_read = 3, !.parallel_turns = 1, !.single_turns = 8,
                !.glob_grep = 1, !.bash_find_grep = 3, !.early_tokens = 1000,
                !.recent_tokens = 1200, !.optimal_sessions = 44, !.early_msgs = 880,
                !.recent_msgs = 924, !.token_sessions = 6,
                !.early_session_tokens = 1000, !.late_session_tokens = 1000]
        LightUsage ==
            [NoUsage EXCEPT
                !.total_sessions = 4, !.total_messages = 8, !.models = TRUE,
                !.input_tokens = 60000, !.output_tokens = 24000, !.cache_reads = 6000,
                !.projects = 1, !.with_claude_md = 1, !.concise_preference = TRUE,
                !.ai_command_count = 2, !.xml_sessions = 1, !.cot_sessions = 4,
                !.example_sessions = 2, !.memory_optimizations = TRUE]
        \* every optimization check at a consistency of 90% or more
        ExemplaryUsage ==
            [SteadyUsage EXCEPT
                !.total_messages = 120, !.projects = 3, !.with_claude_md = 3,
                !.ai_command_count = 2, !.xml_sessions = 11,
                !.input_tokens = 120000, !.output_tokens = 60000,
                !.cache_reads = 1080000, !.read_before_edit = 10,
                !.parallel_turns = 8, !.single_turns = 2, !.glob_grep = 8,
                !.bash_find_grep = 0, !.early_tokens = 2000, !.recent_tokens = 1000,
                !.optimal_sessions = 40, !.early_session_tokens = 2000,
                !.late_session_tokens = 1000]
    IN  {NoUsage, SteadyUsage, HeavyUsage, LightUsage, ExemplaryUsage}

InitAch ==
    /\ unlocked_achievements = <<>>
    /\ ach_ret = <<>>
    /\ reported = <<>>

Init ==
    /\ call = <<"init">>
    /\ InitStreak
    /\ InitAch
    /\ InitProfile
    /\ InitMig
    /\ InitScore

NextStreak == UpdateStreak \/ GetStreakBonus

SpecStreak == Init /\ [][NextStreak]_vars

\* AchievementEngine(profile) for a new profile or one that carries a list
InitAchievements ==
    /\ call = <<"init">>
    /\ InitStreak
    /\ unlocked_achievements \in InitialLedgers
    /\ ach_ret = <<>>
    /\ reported = <<>>
    /\ InitProfile
    /\ InitMig
    /\ InitScore

NextAch == UnlockAchievement \/ CheckProgressionAchievements \/ CheckExcellenceAchievements

SpecAch == InitAchievements /\ [][NextAch]_vars

\* a user_profile.json left by an earlier run, or none
InitPersisted ==
    /\ call = <<"init">>
    /\ InitStreak
    /\ InitAch
    /\ disk \in PersistedDocuments
    /\ data = None
    /\ profile_pc = "none"
    /\ run_ret = None
    /\ processes = <<>>
    /\ InitMig
    /\ InitScore

NextProfile == LoadProfile \/ UpdateFromAnalysis \/ Save \/ HandlerRun

SpecProfile == InitPersisted /\ [][NextProfile]_vars

\* Two processes on one user_profile.json: each constructs a UserProfile,
\* updates it from its analysis and saves it, its steps interleaved with the
\* other's and once; there is no lock around the file.
Procs == {1, 2}

\* UserProfile(...) in process p
ProcLoad(p) ==
    /\ processes[p].pc = "none"
    /\ \E now \in SessionDates :
          /\ processes' = [processes EXCEPT
                              ![p] = [pc |-> "loaded", data |-> load_profile(disk, now)]]
          /\ call' = <<"UserProfile", p, now>>
    /\ UNCHANGED <<disk, data, profile_pc, run_ret>>
    /\ UNCHANGED <<streak_vars, ach_vars, mig_vars, score_vars>>

ProcUpdate(p) ==
    /\ processes[p].pc = "loaded"
    /\ Len(processes[p].data["history"]) < MaxHistory
    /\ \E score_data \in AnalysisInputs, now \in SessionDates :
          /\ processes' = [processes EXCEPT
                              ![p] = [pc |-> "updated",
                                      data |-> update_from_analysis(processes[p].data,
                                                                    score_data, now)]]
          /\ call' = <<"update_from_analysis", p, score_data, now>>
    /\ UNCHANGED <<disk, data, profile_pc, run_ret>>
    /\ UNCHANGED <<streak_vars, ach_vars, mig_vars, score_vars>>

ProcSave(p) ==
    /\ processes[p].pc = "updated"
    /\ disk' = save(disk, processes[p].data)
    /\ processes' = [processes EXCEPT ![p].pc = "saved"]
    /\ call' = <<"save", p>>
    /\ UNCHANGED <<data, profile_pc, run_ret>>
    /\ UNCHANGED <<streak_vars, ach_vars, mig_vars, score_vars>>

InitConcurrent ==
    /\ call = <<"init">>
    /\ InitStreak
    /\ InitAch
    /\ disk \in PersistedDocuments
    /\ data = None
    /\ profile_pc = "none"
    /\ run_ret = None
    /\ processes = [p \in Procs |-> [pc |-> "none", data |-> None]]
    /\ InitMig
    /\ InitScore

NextConcurrent == \E p \in Procs : ProcLoad(p) \/ ProcUpdate(p) \/ ProcSave(p)

SpecConcurrent == InitConcurrent /\ [][NextConcurrent]_vars

\* the values a profile given to MigrationEngine holds under "scores"
V2Scores ==
    [c \in V3Categories \cup {"self_sufficiency"} |->
        IF c = "self_sufficiency" THEN 1500 ELSE 500]

ScoreMaps == { V2Scores, Del(V2Scores, "self_sufficiency") }

\* profiles given to MigrationEngine: with and without a version, a score
\* map, an unlock list, score fields and v3.0 streak fields
ProfileInputs ==
    { [k \in keys |->
          CASE k = "version" -> version
            [] k = "scores" -> Ref(1)
            [] k = "achievements" -> achievements
            [] k = "current_score" -> 8000
            [] k = "current_rank" -> "Commander"
            [] k = "total_sessions" -> 20
            [] k = "streak_info" ->
                   [current |-> [new_streak EXCEPT !.length = 3],
                    best |-> [new_streak EXCEPT !.length = 4]]]
      : keys \in (SUBSET {"version", "scores", "achievements", "streak_info"})
                 \cup {{"version", "scores", "achievements", "current_score",
                        "current_rank", "total_sessions"}},
        version \in {"1.0", SCHEMA_VERSION_LEGACY, SCHEMA_VERSION_CURRENT},
        achievements \in {<<>>, << <<"rank", "cadet">> >>} }

InitMigration ==
    /\ call = <<"init">>
    /\ InitStreak
    /\ InitAch
    /\ InitProfile
    /\ old_profile \in ProfileInputs
    /\ heap \in {<<m>> : m \in ScoreMaps}
    /\ new_profile = None
    /\ mig_ret = None
    /\ InitScore

NextMigration ==
    \/ MigrateProfile
    \/ MigrateIfNeeded
    \/ MigrateIfNeededAgain
    \/ NeedMigration
    \/ ValidateMigration

SpecMigration == InitMigration /\ [][NextMigration]_vars

\* TokenCraftScorer(history, stats, rank = ..., user_profile = profile)
InitScoring ==
    /\ call = <<"init">>
    \* the streak the profile carries into StreakSystem(profile)
    /\ current_streak \in
          { new_streak } \cup
          { [new_streak EXCEPT !.length = n, !.start_date = DateName(1),
                               !.last_session_date = DateName(2),
                               !.last_session_score = 250] : n \in {3, 6} }
    /\ best_streak = current_streak
    /\ streak_ret = NoStreakReturn
    /\ unlocked_achievements \in InitialLedgers
    /\ ach_ret = <<>>
    /\ reported = <<>>
    /\ InitProfile
    /\ InitMig
    /\ usage \in Scenarios
    \* three ranks of the table and one beyond it
    /\ user_rank \in {1, 4, 10, 11}
    \* no snapshot, one with an average, one without
    /\ previous_snapshot \in
          { None, Some([avg_tokens_per_session |-> 32000]),
            Some([avg_tokens_per_session |-> 40000]), Some([timestamp |-> "t"]) }
    \* days since the profile was last updated
    /\ last_updated \in {None, Some(0), Some(10), Some(40)}
    \* the profile has no "recent_session_scores", or four declining scores
    /\ recent_session_scores \in {<<>>, <<6000, 5500, 5000, 4500>>}
    /\ score_ret = None
    /\ totals = None

Next ==
    \/ CalculateCategoryScore("token_efficiency")
    \/ CalculateCategoryScore("optimization_adoption")
    \/ CalculateCategoryScore("improvement_trend")
    \/ CalculateCategoryScore("waste_awareness")
    \/ CalculateCategoryScore("best_practices")
    \/ CalculateCategoryScore("cache_effectiveness")
    \/ CalculateCategoryScore("tool_efficiency")
    \/ CalculateCategoryScore("cost_efficiency")
    \/ CalculateCategoryScore("session_focus")
    \/ CalculateCategoryScore("learning_growth")
    \/ CalculateTotalScore

Spec == InitScoring /\ [][Next]_vars

\* TimeBasedMechanics, ComboBonus and RegressionDetector hold no state: their
\* class methods are called with arguments of the caller's choice, kept in call,
\* and what they return is kept in score_ret.
\* times elapsed in half days, around every boundary of the tables
ElapsedInputs ==
    {-1, 0, 1, 2, 7, 8, 15, 16, 20, 29, 30, 59, 60, 61, 62}

\* scores in tenths of a point
ScoreInputs == {0, 4195, 10000}

ApplyTimeModifiers ==
    /\ \E base_score \in ScoreInputs, session_date \in ElapsedInputs,
          last_session_date \in {None} \cup {Some(e) : e \in ElapsedInputs} :
          /\ score_ret' =
                apply_time_modifiers(
                    base_score * 100, get_days_since(session_date),
                    IF last_session_date = None THEN None
                    ELSE Some(get_days_since(last_session_date[1])))
          /\ call' = <<"apply_time_modifiers", base_score, session_date, last_session_date>>
    /\ UNCHANGED <<usage, user_rank, previous_snapshot, last_updated, recent_session_scores,
                 totals>>
    /\ UNCHANGED <<streak_vars, ach_vars, profile_vars, mig_vars>>

CalculateSeasonalReset ==
    /\ \E last_reset_date \in {None} \cup {Some(e) : e \in ElapsedInputs} :
          /\ score_ret' = calculate_seasonal_reset(last_reset_date)
          /\ call' = <<"calculate_seasonal_reset", last_reset_date>>
    /\ UNCHANGED <<usage, user_rank, previous_snapshot, last_updated, recent_session_scores,
                 totals>>
    /\ UNCHANGED <<streak_vars, ach_vars, profile_vars, mig_vars>>

ApplySeasonalReset ==
    /\ \E current_season_score \in ScoreInputs \cup {1}, lifetime_score \in ScoreInputs :
          /\ score_ret' = apply_seasonal_reset(current_season_score, lifetime_score)
          /\ call' = <<"apply_seasonal_reset", current_season_score, lifetime_score>>
    /\ UNCHANGED <<usage, user_rank, previous_snapshot, last_updated, recent_session_scores,
                 totals>>
    /\ UNCHANGED <<streak_vars, ach_vars, profile_vars, mig_vars>>

\* category_scores with the first k categories excellent (at 80% exactly, or
\* above their maximum) and the others not (just under 80%, or without a
\* maximum)
ComboInputs ==
    { [c \in {Categories[i] : i \in 1..Len(Categories)} |->
          LET i == CHOOSE n \in 1..Len(Categories) : Categories[n] = c
          IN  IF i <= k
              THEN CategoryScore(IF over THEN 2 * WEIGHTS[c] ELSE (WEIGHTS[c] \div 5) * 4,
                                 WEIGHTS[c])
              ELSE IF nomax THEN CategoryScore(100, 0)
                   ELSE CategoryScore((WEIGHTS[c] \div 5) * 4 - 1, WEIGHTS[c])]
      : k \in 0..Len(Categories), over \in BOOLEAN, nomax \in BOOLEAN }

CheckCombo ==
    /\ \E category_scores \in ComboInputs :
          /\ score_ret' = check_combo(category_scores)
          /\ call' = <<"check_combo", category_scores>>
    /\ UNCHANGED <<usage, user_rank, previous_snapshot, last_updated, recent_session_scores,
                 totals>>
    /\ UNCHANGED <<streak_vars, ach_vars, profile_vars, mig_vars>>

\* recent_scores, oldest first
RecentScores ==
    { <<>>, <<6000>>, <<6000, 5500>>, <<0, 0>>, <<6000, 5500, 5000, 4500>>,
      <<4500, 5000, 5500, 6000>>, <<5000, 5200, 5100, 5000>>, <<5000, 4000, 4000, 3900>>,
      <<7000, 6000, 5500, 5000, 4500>> }

AnalyzeRegression ==
    /\ \E current_score \in {4000, 7000},
          efficiency \in {<<100, 100>>, <<96, 100>>, <<95, 100>>, <<90, 100>>, <<100, 0>>},
          recent_scores \in RecentScores :
          /\ score_ret' = analyze_regression(current_score, efficiency[1], efficiency[2],
                                             recent_scores)
          /\ call' = <<"analyze_regression", current_score, efficiency[1], efficiency[2],
                       recent_scores>>
    /\ UNCHANGED <<usage, user_rank, previous_snapshot, last_updated, recent_session_scores,
                 totals>>
    /\ UNCHANGED <<streak_vars, ach_vars, profile_vars, mig_vars>>

\* calculate_difficulty_adjustment(analysis) for what analyze_regression
\* returned last, or for a dict without a severity
CalculateDifficultyAdjustment ==
    /\ \E regression_analysis \in
             {[timestamp |-> "t"]}
             \cup (IF call[1] = "analyze_regression" THEN {score_ret} ELSE {}) :
          /\ score_ret' = calculate_difficulty_adjustment(regression_analysis)
          /\ call' = <<"calculate_difficulty_adjustment", regression_analysis>>
    /\ UNCHANGED <<usage, user_rank, previous_snapshot, last_updated, recent_session_scores,
                 totals>>
    /\ UNCHANGED <<streak_vars, ach_vars, profile_vars, mig_vars>>

\* SpaceRankSystem.RANKS (rank_system.py): ranges in whole points
RANKS ==
    << [name |-> "Cadet", min |-> 0, max |-> 99],
       [name |-> "Navigator", min |-> 100, max |-> 199],
       [name |-> "Pilot", min |-> 200, max |-> 349],
       [name |-> "Explorer", min |-> 350, max |-> 549],
       [name |-> "Captain", min |-> 550, max |-> 799],
       [name |-> "Commander", min |-> 800, max |-> 1099],
       [name |-> "Admiral", min |-> 1100, max |-> 1449],
       [name |-> "Commodore", min |-> 1450, max |-> 1849],
       [name |-> "Fleet Admiral", min |-> 1850, max |-> 2299],
       [name |-> "Galactic Legend", min |-> 2300, max |-> 9999] >>

\* the first rank with rank["min"] <= score <= rank["max"], else the last
\* rank; score and progress_in_rank in tenths, progress_pct as a fraction
get_rank(score) ==
    LET matching == {i \in 1..Len(RANKS) :
                        10 * RANKS[i].min <= score /\ score <= 10 * RANKS[i].max}
        last == RANKS[Len(RANKS)]
    IN  IF matching # {}
        THEN Only({ [name |-> rank.name, min |-> rank.min, max |-> rank.max,
                     current_score |-> score,
                     progress_in_rank |-> score - 10 * rank.min,
                     rank_range |-> rank.max - rank.min + 1,
                     progress_pct |-> <<100 * (score - 10 * rank.min),
                                        10 * (rank.max - rank.min + 1)>>]
                    : rank \in {RANKS[SetMin(matching)]} })
        ELSE [name |-> last.name, min |-> last.min, max |-> last.max,
              current_score |-> score, progress_in_rank |-> score - 10 * last.min,
              rank_range |-> 1, progress_pct |-> <<100, 1>>]

\* the 1-based position of get_rank(score)["name"] in RANKS
calculate_rank_level(score) ==
    LET rank_info == get_rank(score)
        found == {i \in 1..Len(RANKS) : RANKS[i].name = rank_info.name}
    IN  IF found # {} THEN SetMin(found) ELSE 1

\* total scores in tenths, around the ends of the rank ranges
RankScoreInputs == {0, 500, 990, 995, 1000, 3495, 3500, 22995, 23000, 99990, 100000}

GetRank ==
    /\ \E score \in RankScoreInputs :
          /\ score_ret' = get_rank(score)
          /\ call' = <<"get_rank", score>>
    /\ UNCHANGED <<usage, user_rank, previous_snapshot, last_updated, recent_session_scores,
                 totals>>
    /\ UNCHANGED <<streak_vars, ach_vars, profile_vars, mig_vars>>

CalculateRankLevel ==
    /\ \E score \in RankScoreInputs :
          /\ score_ret' = calculate_rank_level(score)
          /\ call' = <<"calculate_rank_level", score>>
    /\ UNCHANGED <<usage, user_rank, previous_snapshot, last_updated, recent_session_scores,
                 totals>>
    /\ UNCHANGED <<streak_vars, ach_vars, profile_vars, mig_vars>>

\* ranks given to the DifficultyModifier and to the scorer, in and out of 1..10
RankArgs == {-1, 0, 1, 4, 10, 11}

GetDifficulty ==
    /\ \E rank \in RankArgs :
          /\ score_ret' = get_difficulty(rank)
          /\ call' = <<"get_difficulty", rank>>
    /\ UNCHANGED <<usage, user_rank, previous_snapshot, last_updated, recent_session_scores,
                 totals>>
    /\ UNCHANGED <<streak_vars, ach_vars, profile_vars, mig_vars>>

\* user_ratio = user_avg / baseline
ApplyTokenEfficiencyDifficulty ==
    /\ \E user_avg \in {30000, 40000, 50000}, rank \in RankArgs :
          /\ score_ret' = apply_token_efficiency_difficulty(100 * Micro, user_avg, 30000, rank)
          /\ call' = <<"apply_token_efficiency_difficulty", 100 * Micro, user_avg, 30000, rank>>
    /\ UNCHANGED <<usage, user_rank, previous_snapshot, last_updated, recent_session_scores,
                 totals>>
    /\ UNCHANGED <<streak_vars, ach_vars, profile_vars, mig_vars>>

ApplyOptimizationDifficulty ==
    /\ \E adoption_rate \in {20, 50, 80}, rank \in RankArgs :
          /\ score_ret' = apply_optimization_difficulty(300 * Micro, adoption_rate, rank)
          /\ call' = <<"apply_optimization_difficulty", 300 * Micro, adoption_rate, rank>>
    /\ UNCHANGED <<usage, user_rank, previous_snapshot, last_updated, recent_session_scores,
                 totals>>
    /\ UNCHANGED <<streak_vars, ach_vars, profile_vars, mig_vars>>

\* TokenCraftScorer(history_data, stats_data, rank).calculate_token_efficiency_score()
CalculateTokenEfficiencyScore ==
    /\ \E u \in Scenarios, rank \in RankArgs :
          /\ score_ret' = calculate_token_efficiency_score(u, rank)
          /\ call' = <<"calculate_token_efficiency_score", u, rank>>
    /\ UNCHANGED <<usage, user_rank, previous_snapshot, last_updated, recent_session_scores,
                 totals>>
    /\ UNCHANGED <<streak_vars, ach_vars, profile_vars, mig_vars>>

InitMechanics ==
    /\ call = <<"init">>
    /\ InitStreak
    /\ InitAch
    /\ InitProfile
    /\ InitMig
    /\ InitScore

NextMechanics ==
    \/ ApplyTimeModifiers
    \/ CalculateSeasonalReset
    \/ ApplySeasonalReset
    \/ CheckCombo
    \/ AnalyzeRegression
    \/ CalculateDifficultyAdjustment
    \/ GetDifficulty
    \/ ApplyTokenEfficiencyDifficulty
    \/ ApplyOptimizationDifficulty
    \/ CalculateTokenEfficiencyScore
    \/ GetRank
    \/ CalculateRankLevel

SpecMechanics == InitMechanics /\ [][NextMechanics]_vars

(***************************************************************************)
(* Claims about the score aggregator and the category evaluators           *)
(***************************************************************************)
\* C1: calculate_total_score combines its parts in the fixed order
\* score_after_streak = base_score * streak_multiplier, then score_after_combo =
\* score_after_streak + combo_bonus_points, then final_score_before_time =
\* score_after_combo + streak_bonus_points, the base score being the sum of the
\* ten category scores, the multiplier and streak bonus those of the prior
\* streak and the combo bonus the one reported; for base_score 1000, streak
\* length 3 and combo tier Well-Rounded this gives 1100, 1150 and 1170.
\* (base in tenths, multiplier in hundredths, the three results in thousandths)
C1_OrderOfOperations ==
    [][ (call'[1] = "calculate_total_score" /\ totals' # None) =>
          LET t == totals'[1]
              r == score_ret'
              prior == get_streak_bonus(current_streak)
          IN  /\ t.base_total_score = SumScores(r.breakdown)
              /\ r.base_score = t.base_total_score
              /\ t.score_after_streak = t.base_total_score * prior.multiplier
              /\ t.score_after_combo =
                     t.score_after_streak + 1000 * r.bonuses.combo.bonus_points
              /\ t.final_score = t.score_after_combo + 1000 * prior.bonus_points
              /\ r.with_bonuses = Round(t.final_score, 100)
              /\ ( /\ t.base_total_score = 10000
                   /\ current_streak.length = 3
                   /\ r.bonuses.combo.tier = "Well-Rounded" ) =>
                     /\ t.score_after_streak = 1100000
                     /\ t.score_after_combo = 1150000
                     /\ t.final_score = 1170000 ]_vars

\* C1 witness: a run has scored a base of 1000 on a streak of 3 with a
\* Well-Rounded combo, and reports 1170 with bonuses
C1_Witness ==
    /\ call[1] = "calculate_total_score"
    /\ totals # None
    /\ totals[1].base_total_score = 10000
    /\ current_streak.length = 3
    /\ score_ret.bonuses.combo.tier = "Well-Rounded"
    /\ totals[1].final_score = 1170000
    /\ score_ret.with_bonuses = 11700

\* C2: for every one of the ten category evaluators and every input, the
\* returned CategoryScore satisfies 0 <= score <= max_score, where max_score
\* is the category's entry in WEIGHTS.
C2_CategoryScoreInRange ==
    (call[1] = "calculate_category_score" /\ ~HasRaised(score_ret)) =>
        /\ score_ret.max_score = WEIGHTS[call[2]]
        /\ 0 <= score_ret.score
        /\ score_ret.score <= score_ret.max_score

(***************************************************************************)
(* Claims about the streak tracker                                         *)
(***************************************************************************)
ZeroStreakState ==
    [length |-> 0, start_date |-> None, last_session_date |-> None,
     last_session_score |-> 0, bonus_points_earned |-> 0]

\* C3: update_streak(improved = true) sets length to min(length + 1, 6) and sets
\* start_date only if it was unset; update_streak(improved = false) resets the
\* current streak to the zero state whatever the prior length; so length stays
\* in 0..6 and never decreases except by a full reset to 0.
C3_StreakTransition ==
    /\ [](current_streak.length \in 0..6)
    /\ [][ /\ (call'[1] = "update_streak" /\ call'[2]) =>
                /\ current_streak'.length = Min(current_streak.length + 1, 6)
                /\ current_streak'.start_date =
                       IF current_streak.start_date = None
                       THEN call'[4] ELSE current_streak.start_date
           /\ (call'[1] = "update_streak" /\ ~call'[2]) =>
                current_streak' = ZeroStreakState
           /\ \/ current_streak'.length >= current_streak.length
              \/ current_streak'.length = 0 ]_vars

\* C3 witness: a full streak of 6 has just been broken by one non-improving session
C3_Witness ==
    /\ call[1] = "update_streak"
    /\ ~call[2]
    /\ current_streak.length = 0
    /\ best_streak.length = 6

StreakBonusTable ==
    [n \in 0..6 |->
        CASE n = 0 -> <<100, 0>>
          [] n = 1 -> <<100, 0>>
          [] n = 2 -> <<105, 10>>
          [] n = 3 -> <<110, 20>>
          [] n = 4 -> <<115, 30>>
          [] n = 5 -> <<120, 40>>
          [] n = 6 -> <<125, 50>>]

\* C4: in every streak state reachable through update_streak (a fresh profile
\* and a just-reset streak included) get_streak_bonus returns the multiplier and
\* bonus points of the table 0 -> (1.00, 0), 1 -> (1.00, 0), 2 -> (1.05, 10),
\* 3 -> (1.10, 20), 4 -> (1.15, 30), 5 -> (1.20, 40), 6 -> (1.25, 50).
C4_StreakBonusTable ==
    LET b == get_streak_bonus(current_streak)
    IN  <<b.multiplier, b.bonus_points>> = StreakBonusTable[current_streak.length]

\* C5: the best streak length is the running maximum of the current streak
\* lengths: it never decreases, is always >= the current length, and a
\* non-improving session leaves the best streak as it was.
C5_BestStreakRunningMax ==
    /\ [](best_streak.length >= current_streak.length)
    /\ [][ /\ best_streak'.length = Max(best_streak.length, current_streak'.length)
           /\ best_streak'.length >= best_streak.length
           /\ (call'[1] = "update_streak" /\ ~call'[2]) => best_streak' = best_streak
         ]_vars

\* C5 witness: the current streak was reset and started again below the best
C5_Witness ==
    /\ call[1] = "update_streak"
    /\ call[2]
    /\ current_streak.length = 2
    /\ best_streak.length = 4

(***************************************************************************)
(* Claims about the achievement ledger                                     *)
(***************************************************************************)
Occurrences(x, list) == Cardinality({i \in 1..Len(list) : list[i] = x})

IsPrefix(a, b) == Len(a) <= Len(b) /\ \A i \in 1..Len(a) : a[i] = b[i]

\* C6: unlock_achievement is idempotent: after a call with a catalog id the unlock
\* list holds exactly one entry for it, and a call with an id the list already
\* holds returns status already_unlocked and leaves the list as it was.
C6_UnlockIdempotent ==
    [][ call'[1] = "unlock_achievement" =>
          /\ call'[2] \in CatalogIds =>
                Occurrences(call'[2], unlocked_achievements') = 1
          /\ InList(call'[2], unlocked_achievements) =>
                /\ ach_ret'.status = "already_unlocked"
                /\ ach_ret'.achievement_id = call'[2]
                /\ unlocked_achievements' = unlocked_achievements ]_vars

\* C6 witness: a second unlock of rank_cadet was answered already_unlocked
C6_Witness ==
    /\ call = <<"unlock_achievement", <<"rank", "cadet">> >>
    /\ ach_ret.status = "already_unlocked"
    /\ Occurrences(<<"rank", "cadet">>, unlocked_achievements) = 1
    /\ Len(unlocked_achievements) >= 2

LegacyRankSpelling(id) ==
    /\ \E i \in 2..Len(id) : id[i] = "ranked"
    /\ <<"rank", id[1]>> \in CatalogIds

C8_LedgerAppendOnlySet ==
    /\ [](\A i, j \in 1..Len(unlocked_achievements) :
             i # j => unlocked_achievements[i] # unlocked_achievements[j])
    /\ [](\A id \in DOMAIN reported : reported[id] <= 1)
    /\ [][IsPrefix(unlocked_achievements, unlocked_achievements')]_vars
    /\ [][ call'[1] \in {"check_progression_achievements",
                        "check_excellence_achievements"} =>
             \A i \in 1..Len(ach_ret') :
                 /\ ~InList(ach_ret'[i].achievement_id, unlocked_achievements)
                 /\ InList(ach_ret'[i].achievement_id, unlocked_achievements') ]_vars

\* C8 witness: the rank fell back to 0 after rank_legend was unlocked and
\* reported once; the check reports nothing and the list keeps the id
C8_Witness ==
    /\ call = <<"check_progression_achievements", 0>>
    /\ ach_ret = <<>>
    /\ InList(<<"rank", "legend">>, unlocked_achievements)
    /\ InList(<<"excellence", "waste">>, unlocked_achievements)
    /\ Reported(<<"rank", "legend">>) = 1

(***************************************************************************)
(* Claims about the persisted profile and its migration                    *)
(***************************************************************************)
IsCurrent(document) ==
    "version" \in DOMAIN document /\ document["version"] = "3.0"

\* C9: after any read-then-write cycle of the persisted profile (load the
\* document, run a scoring update, save) the stored profile's schema version is
\* the current one (3.0), whatever version the document had when read; a stale
\* profile is migrated before the update is applied to it.
C9_VersionCurrentAfterCycle ==
    /\ profile_pc = "cycle_done" => (disk # None /\ IsCurrent(disk[1]))
    /\ profile_pc = "updated" => IsCurrent(data[1])

\* C10: for any stale profile migrate_profile returns a profile whose version is
\* the current one, that holds streak_info and seasonal_info at their zero
\* defaults and a legacy and a migration field, and whose score map no longer
\* holds the removed category self_sufficiency.
C10_MigrateProfileResult ==
    [][ ( /\ call'[1] = "migrate_profile"
          /\ ~IsCurrent(old_profile) ) =>
          LET np == new_profile'[1]
          IN  /\ IsCurrent(np)
              /\ np["streak_info"] = [current |-> ZeroStreakState, best |-> ZeroStreakState]
              /\ np["seasonal_info"].current_season_score = 0
              /\ np["seasonal_info"].lifetime_score = 0
              /\ np["seasonal_info"].current_season_start = call'[2]
              /\ np["seasonal_info"].last_reset = None
              /\ "legacy" \in DOMAIN np /\ np["legacy"] # None
              /\ "migration" \in DOMAIN np /\ np["migration"] # None
              /\ "scores" \in DOMAIN np =>
                    "self_sufficiency" \notin DOMAIN heap'[np["scores"][2]] ]_vars

\* C10 witness: a profile without a version, with a streak of 3 and a score map
\* that held self_sufficiency, has been migrated
C10_Witness ==
    /\ call[1] = "migrate_profile"
    /\ "version" \notin DOMAIN old_profile
    /\ "streak_info" \in DOMAIN old_profile
    /\ old_profile["streak_info"].current.length = 3
    /\ "scores" \in DOMAIN old_profile
    /\ new_profile # None
    /\ new_profile[1]["version"] = "3.0"
    /\ new_profile[1]["legacy"][1].v2_scores = Ref(1)
    /\ DOMAIN heap[1] = V3Categories

\* C11: after migrate_profile on a profile whose score map holds
\* self_sufficiency, the v2_scores of the returned profile's legacy snapshot
\* still hold self_sufficiency with the value it had before the call, and the
\* returned profile's live score map does not hold it.
C11_LegacyKeepsRemovedCategory ==
    [][ ( /\ call'[1] = "migrate_profile"
          /\ "scores" \in DOMAIN old_profile
          /\ "self_sufficiency" \in DOMAIN heap[old_profile["scores"][2]] ) =>
          LET np == new_profile'[1]
              v2_scores == heap'[np["legacy"][1].v2_scores[2]]
          IN  /\ "self_sufficiency" \in DOMAIN v2_scores
              /\ v2_scores["self_sufficiency"]
                    = heap[old_profile["scores"][2]]["self_sufficiency"]
              /\ "self_sufficiency" \notin DOMAIN heap'[np["scores"][2]] ]_vars

\* C12: migrate_profile leaves the profile it is given as it was, its nested
\* score map included: the document and the dict its "scores" refers to are the
\* same before and after the call.
C12_MigrateProfilePure ==
    [][ call'[1] = "migrate_profile" =>
          /\ old_profile' = old_profile
          /\ "scores" \in DOMAIN old_profile =>
                heap'[old_profile["scores"][2]] = heap[old_profile["scores"][2]] ]_vars

\* C13: need_migration returns False for every profile whose version is the
\* current one, and migrate_if_needed given the profile a migration returned
\* returns it unchanged: same fields (streak_info, seasonal_info, legacy,
\* migration among them) and same score map.
C13_RemigrationNoOp ==
    [][ /\ ( call'[1] = "need_migration" /\ IsCurrent(old_profile) ) => mig_ret' = FALSE
        /\ call'[1] = "migrate_if_needed_again" =>
              /\ new_profile' = new_profile
              /\ heap' = heap ]_vars

\* C13 witness: a profile that needed migration has been migrated, with its
\* streak reset and self_sufficiency removed, and given to migrate_if_needed
\* once more at a later date
C13_Witness ==
    /\ call[1] = "migrate_if_needed_again"
    /\ call[2] = DateName(2)
    /\ ~IsCurrent(old_profile)
    /\ "scores" \in DOMAIN old_profile
    /\ new_profile # None
    /\ IsCurrent(new_profile[1])
    /\ new_profile[1]["migration"][1].migrated_at = DateName(1)
    /\ new_profile[1]["streak_info"].current.length = 0
    /\ "self_sufficiency" \notin DOMAIN heap[new_profile[1]["scores"][2]]

(***************************************************************************)
(* Claims about the time-based mechanics, the combo bonus and the          *)
(* regression detector                                                     *)
(***************************************************************************)
\* C14: apply_time_modifiers returns the score multiplied once by the recency
\* multiplier (1.25 on the same day, 1.15 up to 7 days, 1.05 up to 14 days,
\* 1.00 beyond) and the decay multiplier (1.00 up to 3 days since the last
\* update, 0.95 up to 7, 0.85 up to 14, 0.70 up to 30, 0.50 beyond, 1.00 without
\* a last update), rounded to a tenth; a same-day session 10 days after the
\* last update is multiplied by 1.25 * 0.85 = 1.0625.
C14_TimeModifiers ==
    call[1] = "apply_time_modifiers" =>
        LET days_ago == get_days_since(call[3])
            recency == IF days_ago = 0 THEN 125
                       ELSE IF days_ago <= 7 THEN 115
                       ELSE IF days_ago <= 14 THEN 105 ELSE 100
            gap == IF call[4] = None THEN 0 ELSE get_days_since(call[4][1])
            decay == IF call[4] = None \/ gap <= 3 THEN 100
                     ELSE IF gap <= 7 THEN 95
                     ELSE IF gap <= 14 THEN 85
                     ELSE IF gap <= 30 THEN 70 ELSE 50
        IN  /\ score_ret.recency_multiplier = recency
            /\ score_ret.decay_multiplier = decay
            \* tenths times hundredths times hundredths, back to tenths
            /\ score_ret.adjusted_score = Round(call[2] * recency * decay, 10000)
            /\ (days_ago = 0 /\ call[4] # None /\ gap = 10) =>
                   score_ret.adjusted_score = Round(call[2] * 10625, 10000)

\* C14 witness: 1000.0 points of a same-day session, 10 days after the last
\* update, have become 1062.5
C14_Witness ==
    /\ call = <<"apply_time_modifiers", 10000, 1, Some(20)>>
    /\ score_ret.adjusted_score = 10625

\* C15 (as claimed): a seasonal reset is due exactly when there was no reset
\* before or at least 30 days have elapsed since the last one; applying it adds
\* half of the season score to the lifetime score and sets the season score to
\* 0; before the 30th day no reset is due and days_until_reset is positive.
C15_SeasonalReset ==
    /\ call[1] = "calculate_seasonal_reset" =>
          /\ score_ret.should_reset <=> (call[2] = None \/ call[2][1] >= 2 * 30)
          /\ ~score_ret.should_reset => score_ret.days_until_reset > 0
    /\ call[1] = "apply_seasonal_reset" =>
          /\ score_ret.new_lifetime_score = 10 * call[3] + 5 * call[2]
          /\ score_ret.new_season_score = 0

\* C15 (amended): a seasonal reset is due exactly when there was no reset
\* before or at least 30 days have elapsed since the last one; applying it adds
\* half of the season score to the lifetime score and sets the season score to
\* 0; before the 30th day no reset is due, and days_until_reset is positive
\* while at least one whole day is left before the 30th day and 0 afterwards.
C15_SeasonalResetWholeDays ==
    /\ call[1] = "calculate_seasonal_reset" =>
          /\ score_ret.should_reset <=> (call[2] = None \/ call[2][1] >= 2 * 30)
          /\ ~score_ret.should_reset =>
                (score_ret.days_until_reset > 0 <=> call[2][1] <= 2 * 29)
          /\ score_ret.days_until_reset >= 0
    /\ call[1] = "apply_seasonal_reset" =>
          /\ score_ret.new_lifetime_score = 10 * call[3] + 5 * call[2]
          /\ score_ret.new_season_score = 0

\* C15 witness: 29 and a half days after the last reset no reset is due and
\* no whole day is left
C15_Witness ==
    /\ call = <<"calculate_seasonal_reset", Some(59)>>
    /\ ~score_ret.should_reset
    /\ score_ret.days_until_reset = 0

\* the number of categories whose score / max_score, at most 1 and 0 without a
\* maximum, is at least 0.80
ExcellentCount(category_scores) ==
    Cardinality({c \in DOMAIN category_scores :
                    /\ category_scores[c].max_score # 0
                    /\ \/ category_scores[c].score >= category_scores[c].max_score
                       \/ 5 * category_scores[c].score >= 4 * category_scores[c].max_score})

\* C16: check_combo counts the categories at 80% or more of their maximum and
\* returns the bonus of the highest threshold met: 150 MASTERY from 5, 100
\* Proficiency for 4, 50 Well-Rounded for 3, 25 Focused for 2, and bonus 0 with
\* tier None below 2; of two calls the one with the larger count never gets
\* the smaller bonus.
C16_ComboBonus ==
    [][ call'[1] = "check_combo" =>
          LET count == ExcellentCount(call'[2])
          IN  /\ score_ret'.excellent_categories = count
              /\ <<score_ret'.bonus_points, score_ret'.tier_name>> =
                    IF count >= 5 THEN <<150, "MASTERY">>
                    ELSE IF count = 4 THEN <<100, "Proficiency">>
                    ELSE IF count = 3 THEN <<50, "Well-Rounded">>
                    ELSE IF count = 2 THEN <<25, "Focused">>
                    ELSE <<0, "None">>
              /\ (call[1] = "check_combo" /\ count >= ExcellentCount(call[2])) =>
                    score_ret'.bonus_points >= score_ret.bonus_points ]_vars

\* C16 witness: seven excellent categories, some of them above their maximum
\* and the others without a maximum, earn the MASTERY bonus
C16_Witness ==
    /\ call[1] = "check_combo"
    /\ ExcellentCount(call[2]) = 7
    /\ call[2]["token_efficiency"].score > call[2]["token_efficiency"].max_score
    /\ call[2]["learning_growth"].max_score = 0
    /\ score_ret.bonus_points = 150
    /\ score_ret.tier_name = "MASTERY"

\* the number of signals raised in an analysis
Signals(analysis) ==
    (IF analysis.efficiency.has_regressed THEN 1 ELSE 0)
    + (IF analysis.score.has_regressed THEN 1 ELSE 0)
    + (IF analysis.consecutive.has_consecutive_decline THEN 1 ELSE 0)

\* C17: analyze_regression sets severity from the number of true signals
\* among efficiency regression, score regression and consecutive decline (0
\* none, 1 minor, 2 moderate, 3 severe) and has_regressed exactly when the
\* number is positive; calculate_difficulty_adjustment recommends factor 0.85
\* for 14 days on severe, 0.95 for 7 days on moderate and no adjustment
\* otherwise.
C17_SeverityAndAdjustment ==
    /\ call[1] = "analyze_regression" =>
          /\ score_ret.regression_signals = Signals(score_ret)
          /\ score_ret.severity =
                <<"none", "minor", "moderate", "severe">>[Signals(score_ret) + 1]
          /\ score_ret.has_regressed <=> Signals(score_ret) > 0
    /\ call[1] = "calculate_difficulty_adjustment" =>
          LET severity == IF "severity" \in DOMAIN call[2]
                          THEN call[2].severity ELSE "none"
          IN  <<score_ret.should_adjust, score_ret.adjustment_factor,
                score_ret.duration_days>> =
                  IF severity = "severe" THEN <<TRUE, 85, 14>>
                  ELSE IF severity = "moderate" THEN <<TRUE, 95, 7>>
                  ELSE <<FALSE, 100, 0>>

\* C17 witness: the adjustment for an analysis in which all three signals are
\* raised
C17_Witness ==
    /\ call[1] = "calculate_difficulty_adjustment"
    /\ "severity" \in DOMAIN call[2]
    /\ Signals(call[2]) = 3
    /\ call[2].severity = "severe"
    /\ score_ret.adjustment_factor = 85
    /\ score_ret.duration_days = 14

\* the length of the run of strictly decreasing scores at the end of a list
RECURSIVE TrailingDeclines(_)
TrailingDeclines(scores) ==
    IF Len(scores) < 2 \/ scores[Len(scores)] >= scores[Len(scores) - 1] THEN 0
    ELSE 1 + TrailingDeclines(SubSeq(scores, 1, Len(scores) - 1))

StrictlyIncreasing(scores) ==
    \A i \in 2..Len(scores) : scores[i - 1] < scores[i]

\* C18 (as claimed): detect_consecutive_decline counts the run of strictly
\* decreasing scores at the end of recent_scores and reports a decline exactly
\* when the count is at least 3; four strictly decreasing scores give a
\* decline with consecutive_count 3; for strictly increasing scores and a
\* current score above their average neither the score signal nor the
\* consecutive signal is raised.
C18_ConsecutiveDecline ==
    call[1] = "analyze_regression" =>
        LET recent_scores == call[5]
            consecutive == score_ret.consecutive
        IN  /\ consecutive.consecutive_count = TrailingDeclines(recent_scores)
            /\ consecutive.has_consecutive_decline <=> consecutive.consecutive_count >= 3
            /\ recent_scores = <<6000, 5500, 5000, 4500>> =>
                  (consecutive.has_consecutive_decline /\ consecutive.consecutive_count = 3)
            /\ ( /\ recent_scores # <<>>
                 /\ StrictlyIncreasing(recent_scores)
                 /\ call[2] * Len(recent_scores) > sum(recent_scores) ) =>
                  (~score_ret.score.has_regressed /\ ~consecutive.has_consecutive_decline)

\* C18 (amended): for recent_scores of at least 3 entries
\* detect_consecutive_decline counts the run of strictly decreasing scores at
\* the end of the list, and for fewer entries its count is 0; it reports a
\* decline exactly when the count is at least 3; four strictly decreasing
\* scores give a decline with consecutive_count 3; for strictly increasing
\* scores and a current score above their average neither the score signal nor
\* the consecutive signal is raised.
C18_ConsecutiveDeclineFromThree ==
    call[1] = "analyze_regression" =>
        LET recent_scores == call[5]
            consecutive == score_ret.consecutive
        IN  /\ consecutive.consecutive_count =
                  IF Len(recent_scores) >= 3 THEN TrailingDeclines(recent_scores) ELSE 0
            /\ consecutive.has_consecutive_decline <=> consecutive.consecutive_count >= 3
            /\ recent_scores = <<6000, 5500, 5000, 4500>> =>
                  (consecutive.has_consecutive_decline /\ consecutive.consecutive_count = 3)
            /\ ( /\ recent_scores # <<>>
                 /\ StrictlyIncreasing(recent_scores)
                 /\ call[2] * Len(recent_scores) > sum(recent_scores) ) =>
                  (~score_ret.score.has_regressed /\ ~consecutive.has_consecutive_decline)

\* C18 witness: four strictly decreasing scores have been analysed
C18_Witness ==
    /\ call[1] = "analyze_regression"
    /\ call[5] = <<6000, 5500, 5000, 4500>>
    /\ score_ret.consecutive.has_consecutive_decline
    /\ score_ret.consecutive.consecutive_count = 3

\* C19: when calculate_total_score runs on a profile whose
\* recent_session_scores decline consistently (600, 550, 500, 450), the
\* regression_analysis it returns reports an efficiency drop greater than 0.
C19_EfficiencyDropReported ==
    ( /\ call[1] = "calculate_total_score"
      /\ ~HasRaised(score_ret)
      /\ recent_session_scores = <<6000, 5500, 5000, 4500>> ) =>
        score_ret.regression_analysis.efficiency.efficiency_drop_pct > 0

\* C20: with zero sessions and no stats every category evaluator returns a
\* default instead of raising; the default is less than half of the
\* category's max_score, except for improvement_trend and token_efficiency,
\* whose defaults are between 40% and 50% of it.
C20_ZeroDataDefaults ==
    ( /\ call[1] = "calculate_category_score"
      /\ usage.total_sessions = 0
      /\ usage.total_messages = 0
      /\ ~usage.models ) =>
        /\ ~HasRaised(score_ret)
        /\ IF call[2] \in {"improvement_trend", "token_efficiency"}
           THEN /\ 5 * score_ret.score >= 2 * score_ret.max_score
                /\ 2 * score_ret.score <= score_ret.max_score
           ELSE 2 * score_ret.score < score_ret.max_score

(***************************************************************************)
(* Claims about the maximum score, the optimization sub-checks and ranks   *)
(***************************************************************************)
\* C21: the ten category maximum scores total 2300 points, so max_achievable
\* (the category maxima plus the bonus-system weights, the same in every run)
\* is at least 2300. (tenths of a point)
C21_MaxAchievable ==
    (call[1] = "calculate_total_score" /\ ~HasRaised(score_ret)) =>
        /\ score_ret.max_base = 23000
        /\ score_ret.max_achievable = score_ret.max_base + 5750
        /\ score_ret.max_achievable >= 23000

CheckNames ==
    {"defer_docs", "claude_md", "concise_mode", "direct_commands", "context_mgmt",
     "xml_tags", "chain_of_thought", "examples"}

\* every check of the usage has a consistency of 90% or more
AllChecksExcellent(u) ==
    \A k \in CheckNames :
        10 * optimization_checks(u)[k].consistency[1]
            >= 9 * optimization_checks(u)[k].consistency[2]

\* C22: when all eight optimization-adoption sub-checks have consistency >=
\* 0.90, each sub-check scores its own maximum, and the category score, the
\* sum of the eight sub-check scores, equals the category's full max_score
\* of 400.
C22_FullAdoptionScore ==
    ( /\ call[1] = "calculate_category_score"
      /\ call[2] = "optimization_adoption"
      /\ AllChecksExcellent(usage) ) =>
        /\ \A k \in CheckNames :
               optimization_checks(usage)[k].score
                   = optimization_checks(usage)[k].max_score * Micro
        /\ score_ret.max_score = 4000
        /\ score_ret.score = score_ret.max_score

\* the rank clamped to 1..10
Clamped(rank) == Max(1, Min(10, rank))

\* C23: rank handling has no error cases: for every integer rank, below 1
\* and above 10 included, get_difficulty returns the table row of the rank
\* clamped to 1..10, and token-efficiency scoring,
\* apply_token_efficiency_difficulty and apply_optimization_difficulty use
\* that same clamped row, without raising or falling back to another row.
C23_RankClamped ==
    /\ call[1] = "get_difficulty" =>
           /\ score_ret.rank = Clamped(call[2])
           /\ score_ret.tokens_per_session
                  = RANK_BASELINES[Clamped(call[2])].tokens_per_session
           /\ score_ret.multiplier = RANK_BASELINES[Clamped(call[2])].multiplier
           /\ score_ret.optimization_threshold
                  = OPTIMIZATION_THRESHOLDS[Clamped(call[2])]
    /\ call[1] = "calculate_token_efficiency_score" =>
           /\ ~HasRaised(score_ret)
           /\ score_ret = calculate_token_efficiency_score(call[2], Clamped(call[3]))
    /\ call[1] = "apply_token_efficiency_difficulty" =>
           score_ret = apply_token_efficiency_difficulty(call[2], call[3], call[4],
                                                         Clamped(call[5]))
    /\ call[1] = "apply_optimization_difficulty" =>
           score_ret = apply_optimization_difficulty(call[2], call[3], Clamped(call[4]))

\* C24: ranks are ordered tiers in the score: get_rank returns the rank whose
\* range contains the score (Cadet 0-99, Navigator 100-199, ..., Galactic
\* Legend 2300 and above), and for two scores s1 <= s2 that a scoring run can
\* report (non-negative, one decimal place)
\* calculate_rank_level(s1) <= calculate_rank_level(s2); here for the scores
\* of two calls that follow each other. (scores in tenths)
C24_RanksOrdered ==
    [][ /\ call'[1] = "get_rank" =>
             \A i \in 1..Len(RANKS) :
                 ( /\ 10 * RANKS[i].min <= call'[2]
                   /\ (call'[2] <= 10 * RANKS[i].max \/ i = Len(RANKS)) ) =>
                     score_ret'.name = RANKS[i].name
        /\ ( /\ call[1] = "calculate_rank_level"
             /\ call'[1] = "calculate_rank_level"
             /\ call[2] <= call'[2] ) =>
               score_ret <= score_ret' ]_vars

\* a category score outside [0, max_score]
OutOfRange(entry) == entry.score < 0 \/ entry.score > entry.max_score

\* C25: a category score outside [0, max_score] is never silently absorbed:
\* when an evaluator returns such a score the aggregation fails loudly, it
\* neither clamps the value nor carries it into base_score, the combo count
\* and total_score; so a run that returns a result has every score of its
\* breakdown in range.
C25_OutOfRangeFailsLoudly ==
    ( /\ call[1] = "calculate_total_score"
      /\ \E category \in DOMAIN WEIGHTS :
            \E r \in {Evaluate(category, usage, user_rank, previous_snapshot)} :
                ~HasRaised(r) /\ OutOfRange(r) ) =>
        HasRaised(score_ret)

(***************************************************************************)
(* Claims about concurrent processes, frames and the unlock list           *)
(***************************************************************************)
\* the rank-change event of history that process p's update appended last
LastEvent(p) == processes[p].data["history"][Len(processes[p].data["history"])]

\* C26: the core has no locking: when two processes each load the same
\* persisted profile, score it and save it, the saved profile holds only the
\* last writer's state, whatever the other process saved before: after every
\* save the file is exactly the saving process's data. (The interleaving in
\* which the other process's update is lost is the witness.)
C26_LastWriterWins ==
    call[1] = "save" => disk = Some(processes[call[2]].data)

\* C26 witness: both processes loaded the profile of a Cadet without history,
\* process 1 saved a score of 718.0 and its promotion to Captain, process 2
\* saved last, and the file holds process 2's promotion to Admiral only
C26_Witness ==
    /\ call = <<"save", 2>>
    /\ processes[1].pc = "saved"
    /\ processes[2].pc = "saved"
    /\ Len(processes[1].data["history"]) = 1
    /\ Len(processes[2].data["history"]) = 1
    /\ LastEvent(1).old_rank = "Cadet" /\ LastEvent(1).new_rank = "Captain"
    /\ LastEvent(2).old_rank = "Cadet" /\ LastEvent(2).new_rank = "Admiral"
    /\ processes[1].data["current_score"] = 7180
    /\ disk[1]["current_score"] = 12345
    /\ disk[1]["current_rank"] = "Admiral"
    /\ disk[1]["history"] = <<LastEvent(2)>>

\* C27: calculate_total_score takes the streak multiplier and bonus from the
\* prior streak state and does not advance it: the current streak, its dates
\* and the best streak are the same before and after a scoring run, however
\* often the aggregator runs without an update_streak in between.
C27_StreakNotAdvanced ==
    [][ call'[1] = "calculate_total_score" =>
          /\ current_streak' = current_streak
          /\ best_streak' = best_streak
          /\ ~HasRaised(score_ret') =>
                /\ score_ret'.bonuses.streak.streak_length = current_streak.length
                /\ score_ret'.bonuses.streak.multiplier
                       = get_streak_bonus(current_streak).multiplier
                /\ Round(totals'[1].final_score - totals'[1].score_after_combo, 100)
                       = 10 * get_streak_bonus(current_streak).bonus_points ]_vars

\* C27 witness: a second or later run (a former run unlocked achievements,
\* this one none) on a streak of 3 reports the multiplier 1.10 of that streak,
\* and the streak still has length 3 and its dates
C27_Witness ==
    /\ call[1] = "calculate_total_score"
    /\ ~HasRaised(score_ret)
    /\ score_ret.newly_unlocked_achievements = <<>>
    /\ Len(unlocked_achievements) > 2
    /\ score_ret.bonuses.streak.multiplier = 110
    /\ current_streak.length = 3
    /\ current_streak.start_date = DateName(1)
    /\ current_streak.last_session_date = DateName(2)
    /\ best_streak = current_streak

\* unlock lists and recent_session_scores of two other profiles
OtherProfiles ==
    { [unlocked |-> <<>>, recent |-> <<>>],
      [unlocked |-> << <<"rank", "cadet">>, <<"excellence", "cost">> >>,
       recent |-> <<6000, 5500, 5000, 4500>>] }

C29_UnlockListOfCatalogIds ==
    /\ \A i \in 1..Len(unlocked_achievements) : unlocked_achievements[i] \in CatalogIds
    /\ \A i, j \in 1..Len(unlocked_achievements) :
           i # j => get_achievement_by_id(unlocked_achievements[i])
                        # get_achievement_by_id(unlocked_achievements[j])

\* C30: the reported total_score never exceeds max_achievable (so the
\* reported percentage never exceeds 100): base_score * streak_multiplier +
\* combo bonus + streak bonus, times the time multipliers, is at most
\* sum(WEIGHTS) + sum(BONUS_WEIGHTS), for category scores within their maxima.
C30_TotalWithinMaxAchievable ==
    ( /\ call[1] = "calculate_total_score"
      /\ ~HasRaised(score_ret)
      /\ \A c \in DOMAIN score_ret.breakdown : ~OutOfRange(score_ret.breakdown[c]) ) =>
        /\ score_ret.max_achievable
               = SumOver(WEIGHTS, Len(Categories)) + BONUS_WEIGHTS.streak_multiplier
                 + BONUS_WEIGHTS.combo_bonuses + BONUS_WEIGHTS.achievement_rewards
                 + BONUS_WEIGHTS.rank_prestige
        /\ score_ret.total_score <= score_ret.max_achievable

====
